---- MODULE Spec2Model ----
(***************************************************************************)
(* The chunked voxel world of Craft (python edition): chunk storage,       *)
(* the load / evict policy of World.update, terrain generation with the    *)
(* module-level random generator, and the global block read / write.       *)
(***************************************************************************)
EXTENDS Integers, Sequences, FiniteSets, TLC

(* ------------------------------ bounds --------------------------------- *)

\* Number of World operations explored from construction.
MaxOps == 3

(* ---------------------- configuration (craft_config) -------------------- *)

\* craft_math.chunked hard-codes 32 and documents it as CHUNK_SIZE.
CHUNK_SIZE == 32

\* craft_config is not among the sources: the radii follow the spec's
\* constraints (delete >= create, render <= create), scaled to one chunk.
CREATE_CHUNK_RADIUS == 1
DELETE_CHUNK_RADIUS == 2
RENDER_CHUNK_RADIUS == 1

\* Block material ids; 0 is reserved for empty / air.
EMPTY == 0
GRASS == 1
STONE == 3
WOOD == 5
DIRT == 7
GLASS == 10
LEAVES == 15
TALL_GRASS == 17
YELLOW_FLOWER == 18
RED_FLOWER == 19

\* The types Block.is_transparent answers for (the empty type is one of them).
TRANSPARENT_BLOCKS == {EMPTY, GLASS, LEAVES, TALL_GRASS, YELLOW_FLOWER, RED_FLOWER}

(* ------------------------------ inputs --------------------------------- *)

\* Seeds given to World(seed=...).
Seeds == {42}

\* Player positions (x, z) handed to World.update / get_visible_chunks:
\* chunk (0,0), chunk (-1,-1) and chunk (3,0).
PlayerPositions == {<<5, 5>>, <<-1, -1>>, <<100, 5>>}

\* Chunk coordinates generated directly, as demo.py does with (0,0).
ForcedChunks == {<<0, 0>>, <<5, 0>>}

\* Block coordinates read and written: demo.py's (5,10,5), a negative one,
\* one with y outside 0..255, all in chunks that may or may not be loaded.
BlockCoords == {<<5, 10, 5>>, <<-1, 3, -1>>, <<100, 300, 5>>}

\* Block types written through World.set_block.
WrittenTypes == {EMPTY, GRASS}

\* Columns of a chunk's 32x32 footprint that generation fills in the model,
\* as (x, z) offsets from (min_x, min_z) in the order of the nested loops:
\* both corner columns and demo.py's interior column.
GenOffsets == << <<0, 0>>, <<5, 5>>, <<31, 31>> >>

\* Chunks generated with a patch of nine adjacent columns instead, so that a
\* tree's leaves reach the columns next to it: one on high ground (heights
\* 13..15), one on low ground (1..2), one in between (4..5).
DenseChunks == {<<10, 10>>, <<8, 18>>, <<8, 8>>}

DenseOffsets ==
    << <<4, 4>>, <<4, 5>>, <<4, 6>>, <<5, 4>>, <<5, 5>>, <<5, 6>>,
       <<6, 4>>, <<6, 5>>, <<6, 6>> >>

\* The columns of chunk (p, q) that generation fills in the model.
ColumnsOf(p, q) == IF <<p, q>> \in DenseChunks THEN DenseOffsets ELSE GenOffsets

(* ------------------------------ craft_math ------------------------------ *)

\* int(math.floor(x / 32)): floor division, also for negative x.
chunked(x) == x \div CHUNK_SIZE

Abs(n) == IF n < 0 THEN -n ELSE n

\* The integer nearest to num / den (den > 0), a tie going to the even one:
\* IEEE 754 round-to-nearest-even.
RoundHalfEven(num, den) ==
    IF 2 * (num % den) < den THEN num \div den
    ELSE IF 2 * (num % den) > den THEN (num \div den) + 1
    ELSE IF (num \div den) % 2 = 0 THEN num \div den
    ELSE (num \div den) + 1

\* Python integers beyond the model checker's range: [far, n] is the
\* coordinate n when far is false and 2^58 + n when it is true; as a chunk
\* coordinate it is n and 2^53 + n.
NearInt(n) == [far |-> FALSE, n |-> n]

FarInt(n) == [far |-> TRUE, n |-> n]

\* a <= b for two such integers with |n| far below 2^53.
WideLeq(a, b) == IF a.far = b.far THEN a.n <= b.n ELSE b.far

\* chunked on such an integer.  x / 32 is a true division: its result is the
\* double nearest to the quotient.  Below 2^53 every integer x and x / 32 are
\* doubles, and floor is exact.  (2^58 + n) / 32 = 2^53 + n / 32 lies where
\* doubles are 1 apart (n < 0) or 2 apart (n >= 0), so the quotient is rounded
\* to an integer before math.floor sees it.
chunked_wide(x) ==
    IF ~x.far THEN NearInt(chunked(x.n))
    ELSE IF x.n < 0 THEN FarInt(RoundHalfEven(x.n, CHUNK_SIZE))
    ELSE FarInt(2 * RoundHalfEven(x.n, 2 * CHUNK_SIZE))

Max(a, b) == IF a >= b THEN a ELSE b

Min(a, b) == IF a <= b THEN a ELSE b

\* max(abs(p - center_p), abs(q - center_q))
Chebyshev(p, q, cp, cq) == Max(Abs(p - cp), Abs(q - cq))

(* -------------------------------- random -------------------------------- *)

\* The module-level generator of `random`: one state, advanced by every
\* draw.  A full-period linear congruential generator over 0..99 stands for
\* the Mersenne Twister; random.seed(s) fixes the state from s alone.
RandomSeed(s) == s % 100

NextRandom(r) == (r * 21 + 7) % 100

\* random.random() < percent / 100, for the state r the draw produced.
RandomBelow(r, percent) == r < percent

\* random.choice(seq): the element the draw r selects.
RandomChoice(r, seq) == seq[(r % Len(seq)) + 1]

\* random.randint(lo, hi), both ends included.
RandomInt(r, lo, hi) == lo + (r % (hi - lo + 1))

(* --------------------------------- Chunk -------------------------------- *)

NoBlocks == [k \in {} |-> EMPTY]

\* Chunk.__init__
Chunk_init(p, q) ==
    [p |-> p, q |-> q, blocks |-> NoBlocks, generated |-> FALSE, dirty |-> TRUE,
     min_x |-> p * CHUNK_SIZE, max_x |-> (p + 1) * CHUNK_SIZE - 1,
     min_z |-> q * CHUNK_SIZE, max_z |-> (q + 1) * CHUNK_SIZE - 1]

\* Chunk.get_block written with a subscript, self.blocks[(x, y, z)]: a
\* missing key raises KeyError.
Chunk_get_block_Subscript(c, x, y, z) ==
    IF <<x, y, z>> \in DOMAIN c.blocks
    THEN [exc |-> "none", type |-> c.blocks[<<x, y, z>>]]
    ELSE [exc |-> "KeyError", type |-> EMPTY]

\* Chunk.get_block: dict.get with a synthesized EMPTY block as default.
\* The result is [exc, type]; exc names the exception raised, if any.
Chunk_get_block(c, x, y, z) ==
    IF <<x, y, z>> \in DOMAIN c.blocks
    THEN [exc |-> "none", type |-> c.blocks[<<x, y, z>>]]
    ELSE [exc |-> "none", type |-> EMPTY]

\* Chunk.set_block keyed by get_local_coords(x, y, z) instead of the world
\* coordinates.
Chunk_set_block_Local(c, x, y, z, block_type) ==
    LET key == <<x - c.min_x, y, z - c.min_z>>
        blocks == IF block_type = EMPTY
                  THEN [k \in DOMAIN c.blocks \ {key} |-> c.blocks[k]]
                  ELSE (key :> block_type) @@ c.blocks
    IN [c EXCEPT !.blocks = blocks, !.dirty = TRUE]

\* Chunk.set_block without the EMPTY branch: an EMPTY block is stored.
Chunk_set_block_StoresEmpty(c, x, y, z, block_type) ==
    [c EXCEPT !.blocks = (<<x, y, z>> :> block_type) @@ c.blocks, !.dirty = TRUE]

\* Chunk.set_block that leaves the dirty flag as it finds it
Chunk_set_block_KeepsDirty(c, x, y, z, block_type) ==
    [c EXCEPT !.blocks = IF block_type = EMPTY
                         THEN [k \in DOMAIN c.blocks \ {<<x, y, z>>} |-> c.blocks[k]]
                         ELSE (<<x, y, z>> :> block_type) @@ c.blocks]

\* Chunk.set_block that returns early when asked to remove an absent entry
Chunk_set_block_SkipsAbsent(c, x, y, z, block_type) ==
    IF block_type = EMPTY /\ <<x, y, z>> \notin DOMAIN c.blocks
    THEN c
    ELSE [c EXCEPT !.blocks = IF block_type = EMPTY
                              THEN [k \in DOMAIN c.blocks \ {<<x, y, z>>} |-> c.blocks[k]]
                              ELSE (<<x, y, z>> :> block_type) @@ c.blocks,
                   !.dirty = TRUE]

\* Chunk.set_block
Chunk_set_block(c, x, y, z, block_type) ==
    LET key == <<x, y, z>>
        blocks == IF block_type = EMPTY
                  THEN [k \in DOMAIN c.blocks \ {key} |-> c.blocks[k]]
                  ELSE (key :> block_type) @@ c.blocks
    IN [c EXCEPT !.blocks = blocks, !.dirty = TRUE]

\* The bounding box Chunk.__init__ computes for chunk (p, q), in integers of
\* any size: min_x = p * CHUNK_SIZE, max_x = (p + 1) * CHUNK_SIZE - 1.
Chunk_bounds_wide(p, q) ==
    [min_x |-> [p EXCEPT !.n = p.n * CHUNK_SIZE],
     max_x |-> [p EXCEPT !.n = (p.n + 1) * CHUNK_SIZE - 1],
     min_z |-> [q EXCEPT !.n = q.n * CHUNK_SIZE],
     max_z |-> [q EXCEPT !.n = (q.n + 1) * CHUNK_SIZE - 1]]

\* Chunk.contains_point on such a bounding box.
Chunk_contains_point_wide(c, x, z) ==
    /\ WideLeq(c.min_x, x) /\ WideLeq(x, c.max_x)
    /\ WideLeq(c.min_z, z) /\ WideLeq(z, c.max_z)

\* Chunk.contains_point
Chunk_contains_point(c, x, z) ==
    c.min_x <= x /\ x <= c.max_x /\ c.min_z <= z /\ z <= c.max_z

\* A run of chunk.set_block calls, in order; each write is <<x, y, z, type>>.
\* writes[lo..hi] are applied first half, then second half: the same calls in
\* the same order.  `half` is bound to the chunk the first half leaves, so
\* every call is evaluated before the next one starts.
RECURSIVE ApplyWritesIn(_, _, _, _)
ApplyWritesIn(c, writes, lo, hi) ==
    IF lo > hi THEN c
    ELSE IF lo = hi
    THEN Chunk_set_block(c, writes[lo][1], writes[lo][2], writes[lo][3], writes[lo][4])
    ELSE CHOOSE r \in {ApplyWritesIn(half, writes, ((lo + hi) \div 2) + 1, hi) :
                           half \in {ApplyWritesIn(c, writes, lo, (lo + hi) \div 2)}} : TRUE

ApplyWrites(c, writes) == ApplyWritesIn(c, writes, 1, Len(writes))

(* ------------------------------- terrain -------------------------------- *)

\* World._get_terrain_height at the columns the model generates, as
\* <<x, z, height>>: the values of
\* max(1, min(int(8 + 16 * (sin(.02x)cos(.02z) + .5 sin(.04x)cos(.04z))), 64)),
\* tabulated because TLA+ has no trigonometry.
TerrainHeightTable ==
    {
     <<-96, -96, 9>>, <<-91, -91, 8>>, <<-65, -65, 7>>, <<-96, -64, 1>>, <<-91, -59, 1>>,
     <<-65, -33, 1>>, <<-96, -32, 1>>, <<-91, -27, 1>>, <<-65, -1, 1>>, <<-96, 0, 1>>,
     <<-91, 5, 1>>, <<-65, 31, 1>>, <<-96, 32, 1>>, <<-91, 37, 1>>, <<-65, 63, 6>>,
     <<-96, 64, 1>>, <<-91, 69, 1>>, <<-65, 95, 16>>, <<-96, 96, 9>>, <<-91, 101, 12>>,
     <<-65, 127, 19>>, <<-64, -96, 16>>, <<-59, -91, 16>>, <<-33, -65, 12>>, <<-64, -64, 7>>,
     <<-59, -59, 6>>, <<-33, -33, 1>>, <<-64, -32, 1>>, <<-59, -27, 1>>, <<-33, -1, 1>>,
     <<-64, 0, 1>>, <<-59, 5, 1>>, <<-33, 31, 1>>, <<-64, 32, 1>>, <<-59, 37, 1>>,
     <<-33, 63, 11>>, <<-64, 64, 7>>, <<-59, 69, 10>>, <<-33, 95, 17>>, <<-64, 96, 16>>,
     <<-59, 101, 17>>, <<-33, 127, 13>>, <<-32, -96, 17>>, <<-27, -91, 16>>, <<-1, -65, 8>>,
     <<-32, -64, 11>>, <<-27, -59, 9>>, <<-1, -33, 7>>, <<-32, -32, 1>>, <<-27, -27, 1>>,
     <<-1, -1, 7>>, <<-32, 0, 1>>, <<-27, 5, 1>>, <<-1, 31, 7>>, <<-32, 32, 1>>,
     <<-27, 37, 1>>, <<-1, 63, 8>>, <<-32, 64, 11>>, <<-27, 69, 12>>, <<-1, 95, 8>>,
     <<-32, 96, 17>>, <<-27, 101, 15>>, <<-1, 127, 8>>, <<0, -96, 8>>, <<5, -91, 6>>,
     <<31, -65, 4>>, <<0, -64, 8>>, <<5, -59, 7>>, <<31, -33, 17>>, <<0, -32, 8>>,
     <<5, -27, 10>>, <<31, -1, 24>>, <<0, 0, 8>>, <<5, 5, 11>>, <<31, 31, 18>>,
     <<0, 32, 8>>, <<5, 37, 9>>, <<31, 63, 4>>, <<0, 64, 8>>, <<5, 69, 6>>,
     <<31, 95, 1>>, <<0, 96, 8>>, <<5, 101, 6>>, <<31, 127, 3>>, <<32, -96, 1>>,
     <<37, -91, 1>>, <<63, -65, 8>>, <<32, -64, 4>>, <<37, -59, 6>>, <<63, -33, 21>>,
     <<32, -32, 17>>, <<37, -27, 21>>, <<63, -1, 27>>, <<32, 0, 25>>, <<37, 5, 26>>,
     <<63, 31, 21>>, <<32, 32, 17>>, <<37, 37, 16>>, <<63, 63, 8>>, <<32, 64, 4>>,
     <<37, 69, 2>>, <<63, 95, 1>>, <<32, 96, 1>>, <<37, 101, 1>>, <<63, 127, 1>>,
     <<64, -96, 1>>, <<69, -91, 1>>, <<95, -65, 16>>, <<64, -64, 8>>, <<69, -59, 11>>,
     <<95, -33, 18>>, <<64, -32, 21>>, <<69, -27, 22>>, <<95, -1, 18>>, <<64, 0, 27>>,
     <<69, 5, 26>>, <<95, 31, 18>>, <<64, 32, 21>>, <<69, 37, 19>>, <<95, 63, 16>>,
     <<64, 64, 8>>, <<69, 69, 8>>, <<95, 95, 6>>, <<64, 96, 1>>, <<69, 101, 1>>,
     <<95, 127, 1>>, <<96, -96, 6>>, <<101, -91, 9>>, <<127, -65, 16>>, <<96, -64, 16>>,
     <<101, -59, 17>>, <<127, -33, 13>>, <<96, -32, 18>>, <<101, -27, 17>>, <<127, -1, 9>>,
     <<96, 0, 17>>, <<101, 5, 16>>, <<127, 31, 12>>, <<96, 32, 18>>, <<101, 37, 18>>,
     <<127, 63, 16>>, <<96, 64, 16>>, <<101, 69, 16>>, <<127, 95, 10>>, <<96, 96, 6>>,
     <<101, 101, 5>>, <<127, 127, 1>>, <<128, -96, 10>>, <<133, -91, 11>>, <<159, -65, 7>>,
     <<128, -64, 16>>, <<133, -59, 15>>, <<159, -33, 7>>, <<128, -32, 12>>, <<133, -27, 11>>,
     <<159, -1, 7>>, <<128, 0, 9>>, <<133, 5, 8>>, <<159, 31, 7>>, <<128, 32, 12>>,
     <<133, 37, 12>>, <<159, 63, 7>>, <<128, 64, 16>>, <<133, 69, 15>>, <<159, 95, 7>>,
     <<128, 96, 10>>, <<133, 101, 8>>, <<159, 127, 8>>, <<160, -96, 7>>, <<165, -91, 6>>,
     <<191, -65, 1>>, <<160, -64, 6>>, <<165, -59, 5>>, <<191, -33, 2>>, <<160, -32, 7>>,
     <<165, -27, 7>>, <<191, -1, 5>>, <<160, 0, 7>>, <<165, 5, 7>>, <<191, 31, 2>>,
     <<160, 32, 7>>, <<165, 37, 6>>, <<191, 63, 1>>, <<160, 64, 6>>, <<165, 69, 5>>,
     <<191, 95, 5>>, <<160, 96, 7>>, <<165, 101, 7>>, <<191, 127, 19>>, <<192, -96, 5>>,
     <<197, -91, 3>>, <<223, -65, 1>>, <<192, -64, 1>>, <<197, -59, 1>>, <<223, -33, 1>>,
     <<192, -32, 2>>, <<197, -27, 1>>, <<223, -1, 1>>, <<192, 0, 5>>, <<197, 5, 4>>,
     <<223, 31, 1>>, <<192, 32, 2>>, <<197, 37, 1>>, <<223, 63, 1>>, <<192, 64, 1>>,
     <<197, 69, 1>>, <<223, 95, 9>>, <<192, 96, 5>>, <<197, 101, 7>>, <<223, 127, 22>>,
     <<324, 324, 13>>, <<324, 325, 13>>, <<324, 326, 13>>, <<325, 324, 14>>, <<325, 325, 14>>,
     <<325, 326, 14>>, <<326, 324, 15>>, <<326, 325, 14>>, <<326, 326, 14>>, <<260, 580, 2>>,
     <<260, 581, 1>>, <<260, 582, 1>>, <<261, 580, 2>>, <<261, 581, 1>>, <<261, 582, 1>>,
     <<262, 580, 2>>, <<262, 581, 2>>, <<262, 582, 1>>, <<260, 260, 5>>, <<260, 261, 4>>,
     <<260, 262, 4>>, <<261, 260, 5>>, <<261, 261, 4>>, <<261, 262, 4>>, <<262, 260, 5>>,
     <<262, 261, 4>>, <<262, 262, 4>>
    }

\* _get_terrain_height with the noise shifted by a draw from `random`
World_get_terrain_height_Noisy(self, x, z) ==
    Max(1, Min((CHOOSE t \in TerrainHeightTable : t[1] = x /\ t[2] = z)[3]
                 + (self.rng % 5), 64))

\* World._get_terrain_height of the World self: the value the code computes
\* from x, z and self.terrain_scale, self.terrain_height, self.terrain_base,
\* which __init__ sets to 0.02, 16 and 8 and nothing assigns again.
World_get_terrain_height(self, x, z) ==
    (CHOOSE t \in TerrainHeightTable : t[1] = x /\ t[2] = z)[3]

\* The tiers with the stone reaching one block higher (y <= height - 3).
ColumnBlockType_Deep(y, height) ==
    IF y = 0 THEN STONE
    ELSE IF y <= height - 3 THEN STONE
    ELSE IF y < height THEN DIRT
    ELSE GRASS

\* The three tiers of a column: y == 0 and y < height - 3 are stone,
\* y < height is dirt, y == height is grass.
ColumnBlockType(y, height) ==
    IF y = 0 THEN STONE
    ELSE IF y < height - 3 THEN STONE
    ELSE IF y < height THEN DIRT
    ELSE GRASS

\* for y in range(0, min(height + 1, 256)): chunk.set_block(x, y, z, block_type)
ColumnWrites(x, z, height) ==
    [i \in 1..Min(height + 1, 256) |-> <<x, i - 1, z, ColumnBlockType(i - 1, height)>>]

\* The (dx, dy, dz) of the three nested range(-2, 3) loops, in loop order.
LeafOffsets ==
    [i \in 1..125 |-> <<((i - 1) \div 25) - 2, (((i - 1) \div 5) % 5) - 2, ((i - 1) % 5) - 2>>]

\* The leaf writes of a tree with base (x, y, z): the offsets within the
\* sphere dx^2 + dy^2 + dz^2 <= 4 whose leaf_y lies above y + tree_height - 2.
LeafWrites(x, y, z, tree_height) ==
    LET inSphere(d) == d[1] * d[1] + d[2] * d[2] + d[3] * d[3] <= 4
        upper(d) == y + tree_height + d[2] > y + tree_height - 2
        kept == SelectSeq(LeafOffsets, LAMBDA d : inSphere(d) /\ upper(d))
    IN [i \in 1..Len(kept) |->
           <<x + kept[i][1], y + tree_height + kept[i][2], z + kept[i][3], LEAVES>>]

\* for i in range(tree_height): chunk.set_block(x, y + i, z, WOOD)
TrunkWrites(x, y, z, tree_height) ==
    [i \in 1..tree_height |-> <<x, y + i - 1, z, WOOD>>]

\* World._generate_tree on chunk c with generator state r: [chunk, rng], and
\* the tree_height it drew.
World_generate_tree(c, r, x, y, z) ==
    LET r1 == NextRandom(r)
        tree_height == RandomInt(r1, 4, 7)
        trunk == ApplyWrites(c, TrunkWrites(x, y, z, tree_height))
    IN [chunk |-> ApplyWrites(trunk, LeafWrites(x, y, z, tree_height)), rng |-> r1,
        tree_height |-> tree_height]

\* One iteration of the (x, z) loop body of World._generate_chunk on
\* [chunk, rng, self, trees], self being the World generating and trees the
\* <<x, y, z, tree_height>> of the _generate_tree calls made so far.  `and` short-circuits: random.random() is drawn only when
\* the height test before it passes, random.choice / the tree only on a hit.
GenerateColumn(s, x, z) ==
    LET height == World_get_terrain_height([s.self EXCEPT !.rng = s.rng], x, z)
        filled == ApplyWrites(s.chunk, ColumnWrites(x, z, height))
        r1 == IF height > 0 THEN NextRandom(s.rng) ELSE s.rng
        plant == height > 0 /\ RandomBelow(r1, 10)
        r2 == IF plant THEN NextRandom(r1) ELSE r1
        planted == IF plant
                   THEN Chunk_set_block(filled, x, height + 1, z,
                            RandomChoice(r2, <<TALL_GRASS, YELLOW_FLOWER, RED_FLOWER>>))
                   ELSE filled
        r3 == IF height > 5 THEN NextRandom(r2) ELSE r2
        tree == height > 5 /\ RandomBelow(r3, 2)
        grown == World_generate_tree(planted, r3, x, height + 1, z)
    IN IF tree THEN [s EXCEPT !.chunk = grown.chunk, !.rng = grown.rng,
                              !.trees = s.trees \cup {<<x, height + 1, z, grown.tree_height>>}]
       ELSE [s EXCEPT !.chunk = planted, !.rng = r3]

\* The (x, z) loops of World._generate_chunk over columns lo..hi of
\* GenOffsets, on [chunk, rng, self]: first half, then second half.
RECURSIVE GenerateColumns(_, _, _)
GenerateColumns(s, lo, hi) ==
    IF lo > hi THEN s
    ELSE IF lo = hi
    THEN GenerateColumn(s, s.chunk.min_x + ColumnsOf(s.chunk.p, s.chunk.q)[lo][1],
                           s.chunk.min_z + ColumnsOf(s.chunk.p, s.chunk.q)[lo][2])
    ELSE CHOOSE r \in {GenerateColumns(half, ((lo + hi) \div 2) + 1, hi) :
                           half \in {GenerateColumns(s, lo, (lo + hi) \div 2)}} : TRUE

(* --------------------------------- World -------------------------------- *)

\* A world value w is [chunks, loaded_chunks, rng]: the chunk mapping, the
\* loaded set and the state of the module-level random generator.

NoChunks == [k \in {} |-> Chunk_init(0, 0)]

\* World.__init__: self.seed = seed or random.randint(...); random.seed(self.seed).
\* r0 is the state of the generator before construction.
World_init(seed, r0) ==
    LET s == IF seed # 0 THEN seed ELSE RandomInt(NextRandom(r0), 0, 99)
    IN [seed |-> s, chunks |-> NoChunks, loaded_chunks |-> {}, rng |-> RandomSeed(s)]

\* World(seed=...) as the caller writes it: given is <<>> for no seed (None)
\* and <<s>> for the integer s.  None and 0 are both false for `or`.
World_new(given, r0) == World_init(IF given = <<>> THEN 0 ELSE given[1], r0)

\* _generate_chunk that puts the new Chunk into the mapping before the
\* terrain loops and the generated flag
World_generate_chunk_Early(w, p, q) ==
    [w EXCEPT !.chunks = (<<p, q>> :> Chunk_init(p, q)) @@ w.chunks,
              !.loaded_chunks = w.loaded_chunks \cup {<<p, q>>}]

\* The loops of World._generate_chunk on a new Chunk(p, q): [chunk, rng,
\* self, trees] when they end.
GeneratedColumns(w, p, q) ==
    GenerateColumns([chunk |-> Chunk_init(p, q), rng |-> w.rng, self |-> w, trees |-> {}],
                    1, Len(ColumnsOf(p, q)))

\* World._generate_chunk
World_generate_chunk(w, p, q) ==
    LET s == GeneratedColumns(w, p, q)
        chunk == [s.chunk EXCEPT !.generated = TRUE]
    IN [w EXCEPT !.chunks = (<<p, q>> :> chunk) @@ w.chunks,
                 !.loaded_chunks = w.loaded_chunks \cup {<<p, q>>},
                 !.rng = s.rng]

\* The (dp, dq) of two nested range(-R, R) loops, which stop one short.
LoadOffsets_HalfOpen ==
    LET n == 2 * CREATE_CHUNK_RADIUS
    IN [i \in 1..(n * n) |->
           <<((i - 1) \div n) - CREATE_CHUNK_RADIUS, ((i - 1) % n) - CREATE_CHUNK_RADIUS>>]

\* The (dp, dq) of the two nested range(-R, R + 1) loops, in loop order.
LoadOffsets ==
    LET n == 2 * CREATE_CHUNK_RADIUS + 1
    IN [i \in 1..(n * n) |->
           <<((i - 1) \div n) - CREATE_CHUNK_RADIUS, ((i - 1) % n) - CREATE_CHUNK_RADIUS>>]

\* The loop body without the `not in self.chunks` test.
LoadChunkAt_Always(s, p, q) ==
    [world |-> World_generate_chunk(s.world, p, q),
     generated |-> s.generated \cup {<<p, q>>}]

\* The loop body of World._load_chunks_around on [world, generated], where
\* generated collects the coordinates handed to _generate_chunk.
LoadChunkAt(s, p, q) ==
    IF <<p, q>> \notin DOMAIN s.world.chunks
    THEN [world |-> World_generate_chunk(s.world, p, q),
          generated |-> s.generated \cup {<<p, q>>}]
    ELSE s

\* The (dp, dq) loops over entries lo..hi of LoadOffsets: first half, then
\* second half.
RECURSIVE LoadChunksIn(_, _, _, _, _)
LoadChunksIn(s, center_p, center_q, lo, hi) ==
    IF lo > hi THEN s
    ELSE IF lo = hi
    THEN LoadChunkAt(s, center_p + LoadOffsets[lo][1], center_q + LoadOffsets[lo][2])
    ELSE CHOOSE r \in {LoadChunksIn(half, center_p, center_q, ((lo + hi) \div 2) + 1, hi) :
                           half \in {LoadChunksIn(s, center_p, center_q, lo,
                                                   (lo + hi) \div 2)}} : TRUE

\* World._load_chunks_around: [world, generated]
World_load_chunks_around(w, center_p, center_q) ==
    LoadChunksIn([world |-> w, generated |-> {}], center_p, center_q, 1, Len(LoadOffsets))

\* The distance taken as min(...) of the two axes instead of max(...).
ToRemove_Min(w, center_p, center_q) ==
    {k \in DOMAIN w.chunks :
        Min(Abs(k[1] - center_p), Abs(k[2] - center_q)) > DELETE_CHUNK_RADIUS}

\* The comparison turned round: distance < DELETE_CHUNK_RADIUS.
ToRemove_Inverted(w, center_p, center_q) ==
    {k \in DOMAIN w.chunks :
        Chebyshev(k[1], k[2], center_p, center_q) < DELETE_CHUNK_RADIUS}

\* for (p, q) in self.chunks: if distance > DELETE_CHUNK_RADIUS: to_remove.append
ToRemove(w, center_p, center_q) ==
    {k \in DOMAIN w.chunks :
        Chebyshev(k[1], k[2], center_p, center_q) > DELETE_CHUNK_RADIUS}

\* _unload_distant_chunks without self.loaded_chunks.discard(chunk_key).
World_unload_distant_chunks_KeepsLoaded(w, center_p, center_q) ==
    LET to_remove == ToRemove(w, center_p, center_q)
    IN [w EXCEPT !.chunks = [k \in DOMAIN w.chunks \ to_remove |-> w.chunks[k]]]

\* World._unload_distant_chunks
World_unload_distant_chunks(w, center_p, center_q) ==
    LET to_remove == ToRemove(w, center_p, center_q)
    IN [w EXCEPT !.chunks = [k \in DOMAIN w.chunks \ to_remove |-> w.chunks[k]],
                 !.loaded_chunks = w.loaded_chunks \ to_remove]

\* World.get_chunk: dict.get, None when absent.  [found, chunk]
World_get_chunk(w, p, q) ==
    IF <<p, q>> \in DOMAIN w.chunks
    THEN [found |-> TRUE, chunk |-> w.chunks[<<p, q>>]]
    ELSE [found |-> FALSE, chunk |-> Chunk_init(p, q)]

\* World.get_chunk_for_position
World_get_chunk_for_position(w, x, z) == World_get_chunk(w, chunked(x), chunked(z))

\* get_block generating the owning chunk on demand when it is not loaded.
World_get_block_Generates(w, x, y, z) ==
    LET w1 == IF <<chunked(x), chunked(z)>> \in DOMAIN w.chunks THEN w
              ELSE World_generate_chunk(w, chunked(x), chunked(z))
        block == Chunk_get_block(w1.chunks[<<chunked(x), chunked(z)>>], x, y, z)
    IN [world |-> w1, exc |-> block.exc, type |-> block.type]

\* World.get_block: [world, exc, type] - the world it leaves and what it returns.
World_get_block(w, x, y, z) ==
    LET got == World_get_chunk_for_position(w, x, z)
        block == IF got.found THEN Chunk_get_block(got.chunk, x, y, z)
                 ELSE [exc |-> "none", type |-> EMPTY]
    IN [world |-> w, exc |-> block.exc, type |-> block.type]

\* set_block creating an empty chunk for a coordinate that is not loaded.
World_set_block_Creates(w, x, y, z, block_type) ==
    LET p == chunked(x)
        q == chunked(z)
        chunk == IF <<p, q>> \in DOMAIN w.chunks THEN w.chunks[<<p, q>>]
                 ELSE Chunk_init(p, q)
        written == Chunk_set_block(chunk, x, y, z, block_type)
    IN [world |-> [w EXCEPT !.chunks = (<<p, q>> :> written) @@ w.chunks,
                            !.loaded_chunks = w.loaded_chunks \cup {<<p, q>>}],
        exc |-> "none"]

\* World.set_block: [world, exc]
World_set_block(w, x, y, z, block_type) ==
    LET got == World_get_chunk_for_position(w, x, z)
    IN IF got.found
       THEN [world |-> [w EXCEPT !.chunks[<<got.chunk.p, got.chunk.q>>] =
                                     Chunk_set_block(got.chunk, x, y, z, block_type)],
             exc |-> "none"]
       ELSE [world |-> w, exc |-> "none"]

\* The order `for (p, q), chunk in self.chunks.items()` visits the keys in.
\* A dict keeps insertion order; the model visits them in coordinate order,
\* and no caller may rely on either.
KeyBefore(a, b) == a[1] < b[1] \/ (a[1] = b[1] /\ a[2] <= b[2])

FirstKey(S) == CHOOSE k \in S : \A j \in S : KeyBefore(k, j)

RECURSIVE KeysInOrder(_)
KeysInOrder(S) ==
    IF S = {} THEN <<>> ELSE <<FirstKey(S)>> \o KeysInOrder(S \ {FirstKey(S)})

\* get_visible_chunks with `distance < RENDER_CHUNK_RADIUS`
World_get_visible_chunks_Strict(w, x, z) ==
    LET player_p == chunked(x)
        player_q == chunked(z)
        Near(k) == Chebyshev(k[1], k[2], player_p, player_q) < RENDER_CHUNK_RADIUS
    IN [world |-> w, exc |-> "none",
        visible |-> SelectSeq(KeysInOrder(DOMAIN w.chunks), Near)]

\* World.get_visible_chunks: [world, exc, visible], visible the list returned,
\* each chunk given by its key in World.chunks.
World_get_visible_chunks(w, x, z) ==
    LET player_p == chunked(x)
        player_q == chunked(z)
        Near(k) == Chebyshev(k[1], k[2], player_p, player_q) <= RENDER_CHUNK_RADIUS
    IN [world |-> w, exc |-> "none",
        visible |-> SelectSeq(KeysInOrder(DOMAIN w.chunks), Near)]

\* create_chunk of the compatibility World (world.py) on its craft_world w:
\* [world, result], result the {(x, y, z): type} mapping handed to the server.
Compat_create_chunk(w, p, q) ==
    LET got == World_get_chunk(w, p, q)
        world == IF ~got.found THEN World_generate_chunk(w, p, q) ELSE w
    IN [world |-> world, result |-> World_get_chunk(world, p, q).chunk.blocks]

\* OrderedDict of the compatibility World: a sequence of [key, chunk] entries,
\* oldest first.  `key in cache`, cache[key], and the entries left by pop(key).
CacheHas(cache, key) == \E i \in DOMAIN cache : cache[i].key = key

CacheGet(cache, key) == cache[CHOOSE i \in DOMAIN cache : cache[i].key = key].chunk

CacheWithout(cache, key) == SelectSeq(cache, LAMBDA e : e.key # key)

\* if len(self.cache) > self.cache_size: self.cache.popitem(False)
CacheTrimmed(stored, cache_size) ==
    IF Len(stored) > cache_size THEN Tail(stored) ELSE stored

\* The mapping get_chunk returns: the cached one, or the one just made.
CacheChunk(cache, key, made) ==
    IF CacheHas(cache, key) THEN CacheGet(cache, key) ELSE made.result

\* get_chunk that leaves an entry it hits where it is in the cache.
Compat_get_chunk_InPlace(c, p, q) ==
    CHOOSE r \in
        {[compat |->
              [c EXCEPT
                  !.world = IF CacheHas(c.cache, <<p, q>>) THEN c.world ELSE made.world,
                  !.cache = CacheTrimmed(
                                IF CacheHas(c.cache, <<p, q>>)
                                THEN c.cache
                                ELSE Append(c.cache,
                                            [key |-> <<p, q>>,
                                             chunk |-> CacheChunk(c.cache, <<p, q>>, made)]),
                                c.cache_size)],
          chunk |-> CacheChunk(c.cache, <<p, q>>, made),
          hit |-> CacheHas(c.cache, <<p, q>>)] :
            made \in {Compat_create_chunk(c.world, p, q)}} : TRUE

\* get_chunk of the compatibility World c = [world, cache, cache_size]:
\* [compat, chunk, hit], chunk the mapping returned and hit whether
\* cache.pop found the key; made is what create_chunk does, which is called
\* on a miss only.
Compat_get_chunk(c, p, q) ==
    CHOOSE r \in
        {[compat |->
              [c EXCEPT
                  !.world = IF CacheHas(c.cache, <<p, q>>) THEN c.world ELSE made.world,
                  !.cache = CacheTrimmed(
                                Append(CacheWithout(c.cache, <<p, q>>),
                                       [key |-> <<p, q>>,
                                        chunk |-> CacheChunk(c.cache, <<p, q>>, made)]),
                                c.cache_size)],
          chunk |-> CacheChunk(c.cache, <<p, q>>, made),
          hit |-> CacheHas(c.cache, <<p, q>>)] :
            made \in {Compat_create_chunk(c.world, p, q)}} : TRUE

(* ------------------------------ the renderer ---------------------------- *)

\* Block.is_empty, Block.is_transparent and Block.is_solid, of a block type
Block_is_empty(t) == t = EMPTY

Block_is_transparent(t) == t \in TRANSPARENT_BLOCKS

Block_is_solid(t) == ~Block_is_empty(t) /\ ~Block_is_transparent(t)

\* The list `directions` of Renderer._get_visible_faces
directions ==
    << <<"front",  0,  0,  1>>,
       <<"back",   0,  0, -1>>,
       <<"right",  1,  0,  0>>,
       <<"left",  -1,  0,  0>>,
       <<"top",    0,  1,  0>>,
       <<"bottom", 0, -1,  0>> >>

\* _get_visible_faces that also drops the face towards any transparent neighbour
Renderer_get_visible_faces_EmptyOnly(chunk, x, y, z, block_type) ==
    LET Shown(d) == Block_is_empty(Chunk_get_block(chunk, x + d[2], y + d[3], z + d[4]).type)
        shown == SelectSeq(directions, Shown)
    IN [i \in 1..Len(shown) |-> shown[i][1]]

\* Renderer._get_visible_faces: the list of face names
Renderer_get_visible_faces(chunk, x, y, z, block_type) ==
    LET Shown(d) ==
            LET neighbor == Chunk_get_block(chunk, x + d[2], y + d[3], z + d[4]).type
            IN Block_is_empty(neighbor)
               \/ (Block_is_transparent(neighbor) /\ neighbor # block_type)
        shown == SelectSeq(directions, Shown)
    IN [i \in 1..Len(shown) |-> shown[i][1]]

\* _get_face_vertices that gives the four corners of the face
Renderer_get_face_vertices_Quad(x, y, z, face, block_type) ==
    LET u == block_type % 16
        v == block_type \div 16
    IN IF face \in {"front", "back", "right", "left", "top", "bottom"}
       THEN <<x, y, z, u, v,  x + 1, y, z, u + 1, v,
              x + 1, y + 1, z, u + 1, v + 1,  x, y + 1, z, u, v + 1>>
       ELSE <<>>

\* Renderer._get_face_vertices: the flat list x, y, z, u, v per vertex.  The
\* texture coordinates are counted in tiles of the 16 x 16 atlas, so tex_size
\* is 1, tex_x is block_type % 16 and tex_y is block_type // 16, in units of
\* 1/16.
Renderer_get_face_vertices(x, y, z, face, block_type) ==
    LET tex_size == 1
        tex_x == (block_type % 16) * tex_size
        tex_y == (block_type \div 16) * tex_size
    IN CASE face = "front" ->
              <<x, y, z + 1,         tex_x, tex_y,
                x + 1, y, z + 1,     tex_x + tex_size, tex_y,
                x + 1, y + 1, z + 1, tex_x + tex_size, tex_y + tex_size,
                x, y, z + 1,         tex_x, tex_y,
                x + 1, y + 1, z + 1, tex_x + tex_size, tex_y + tex_size,
                x, y + 1, z + 1,     tex_x, tex_y + tex_size>>
         [] face = "back" ->
              <<x + 1, y, z,         tex_x, tex_y,
                x, y, z,             tex_x + tex_size, tex_y,
                x, y + 1, z,         tex_x + tex_size, tex_y + tex_size,
                x + 1, y, z,         tex_x, tex_y,
                x, y + 1, z,         tex_x + tex_size, tex_y + tex_size,
                x + 1, y + 1, z,     tex_x, tex_y + tex_size>>
         [] face = "right" ->
              <<x + 1, y, z + 1,     tex_x, tex_y,
                x + 1, y, z,         tex_x + tex_size, tex_y,
                x + 1, y + 1, z,     tex_x + tex_size, tex_y + tex_size,
                x + 1, y, z + 1,     tex_x, tex_y,
                x + 1, y + 1, z,     tex_x + tex_size, tex_y + tex_size,
                x + 1, y + 1, z + 1, tex_x, tex_y + tex_size>>
         [] face = "left" ->
              <<x, y, z,             tex_x, tex_y,
                x, y, z + 1,         tex_x + tex_size, tex_y,
                x, y + 1, z + 1,     tex_x + tex_size, tex_y + tex_size,
                x, y, z,             tex_x, tex_y,
                x, y + 1, z + 1,     tex_x + tex_size, tex_y + tex_size,
                x, y + 1, z,         tex_x, tex_y + tex_size>>
         [] face = "top" ->
              <<x, y + 1, z + 1,     tex_x, tex_y,
                x + 1, y + 1, z + 1, tex_x + tex_size, tex_y,
                x + 1, y + 1, z,     tex_x + tex_size, tex_y + tex_size,
                x, y + 1, z + 1,     tex_x, tex_y,
                x + 1, y + 1, z,     tex_x + tex_size, tex_y + tex_size,
                x, y + 1, z,         tex_x, tex_y + tex_size>>
         [] face = "bottom" ->
              <<x, y, z,             tex_x, tex_y,
                x + 1, y, z,         tex_x + tex_size, tex_y,
                x + 1, y, z + 1,     tex_x + tex_size, tex_y + tex_size,
                x, y, z,             tex_x, tex_y,
                x + 1, y, z + 1,     tex_x + tex_size, tex_y + tex_size,
                x, y, z + 1,         tex_x, tex_y + tex_size>>
         [] OTHER -> <<>>

\* A vertex buffer of Renderer.chunk_buffers.  The list of floats is kept as
\* the set of faces it was extended with, <<x, y, z, face, block_type>> each
\* standing for the floats _get_face_vertices gives for it; none tells the
\* entry None from a list.
NoneBuffer == [none |-> TRUE, faces |-> {}]

NoBuffers == [k \in {} |-> NoneBuffer]

\* The faces one stored block adds to the list
BlockFaces(chunk, k) ==
    LET names == Renderer_get_visible_faces(chunk, k[1], k[2], k[3], chunk.blocks[k])
    IN {<<k[1], k[2], k[3], names[i], chunk.blocks[k]>> : i \in 1..Len(names)}

\* Renderer._build_chunk_mesh: chunk_buffers after the call
Renderer_build_chunk_mesh(buffers, chunk) ==
    LET stored == {k \in DOMAIN chunk.blocks : ~Block_is_empty(chunk.blocks[k])}
        vertices == UNION {BlockFaces(chunk, k) : k \in stored}
        chunk_id == <<chunk.p, chunk.q>>
    IN IF vertices # {}
       THEN (chunk_id :> [none |-> FALSE, faces |-> vertices]) @@ buffers
       ELSE (chunk_id :> NoneBuffer) @@ buffers

\* _render_chunk that rebuilds the mesh whether the chunk is dirty or not
Renderer_render_chunk_Always(s, chunk) ==
    LET chunk_id == <<chunk.p, chunk.q>>
        buffers == Renderer_build_chunk_mesh(s.buffers, chunk)
    IN [chunks |-> (chunk_id :> [chunk EXCEPT !.dirty = FALSE]) @@ s.chunks,
        buffers |-> buffers,
        rebuilt |-> s.rebuilt \cup {chunk_id},
        drawn |-> IF ~buffers[chunk_id].none THEN s.drawn \cup {chunk_id} ELSE s.drawn]

\* Renderer._render_chunk, of the chunk object World.chunks holds.
\* s = [chunks, buffers, rebuilt, drawn]: World.chunks, Renderer.chunk_buffers,
\* and the chunks whose mesh was rebuilt / whose buffer was drawn so far.
Renderer_render_chunk(s, chunk) ==
    LET chunk_id == <<chunk.p, chunk.q>>
        buffers == IF chunk.dirty
                   THEN Renderer_build_chunk_mesh(s.buffers, chunk)
                   ELSE s.buffers
    IN IF ~chunk.generated
       THEN s
       ELSE [chunks |-> IF chunk.dirty
                        THEN (chunk_id :> [chunk EXCEPT !.dirty = FALSE]) @@ s.chunks
                        ELSE s.chunks,
             buffers |-> buffers,
             rebuilt |-> IF chunk.dirty THEN s.rebuilt \cup {chunk_id} ELSE s.rebuilt,
             drawn |-> IF chunk_id \in DOMAIN buffers /\ ~buffers[chunk_id].none
                       THEN s.drawn \cup {chunk_id}
                       ELSE s.drawn]

\* The loop `for chunk in visible_chunks` of render_world, over visible[lo..hi]
RECURSIVE RenderChunksIn(_, _, _, _)
RenderChunksIn(s, visible, lo, hi) ==
    IF lo > hi THEN s
    ELSE IF lo = hi
    THEN Renderer_render_chunk(s, s.chunks[visible[lo]])
    ELSE CHOOSE r \in {RenderChunksIn(half, visible, ((lo + hi) \div 2) + 1, hi) :
                           half \in {RenderChunksIn(s, visible, lo, (lo + hi) \div 2)}} : TRUE

\* Renderer.render_world: [chunks, buffers, rebuilt, drawn, visible]
Renderer_render_world(w, buffers, x, z) ==
    LET visible == World_get_visible_chunks(w, x, z).visible
        s == RenderChunksIn([chunks |-> w.chunks, buffers |-> buffers,
                             rebuilt |-> {}, drawn |-> {}], visible, 1, Len(visible))
    IN [chunks |-> s.chunks, buffers |-> s.buffers, rebuilt |-> s.rebuilt,
        drawn |-> s.drawn, visible |-> visible]

(* --------------------------- the network client ------------------------- *)

\* A field of an inbound line after split(','): text that int() accepts, text
\* that float() accepts but int() does not, or text that neither accepts.
IntField(n) == [kind |-> "int", val |-> n]

FloatField(n) == [kind |-> "float", val |-> n]

TextField == [kind |-> "text", val |-> 0]

\* int(field) and float(field): ok is false where Python raises ValueError.
ParseInt(field) == [ok |-> field.kind = "int", val |-> field.val]

ParseFloat(field) == [ok |-> field.kind \in {"int", "float"}, val |-> field.val]

\* args[lo - 1 : hi - 1] of Python, on the 1-based sequence args: the slice
\* stops at the end of the list.
Slice(args, lo, hi) ==
    [i \in 1..(Min(hi, Len(args) + 1) - Min(lo, Len(args) + 1)) |-> args[lo + i - 1]]

\* a, b, ... = map(parse, fields) with n targets: ok iff there are exactly n
\* fields and parse accepts each.
UnpackInts(fields, n) ==
    Len(fields) = n /\ \A i \in 1..Len(fields) : ParseInt(fields[i]).ok

UnpackFloats(fields, n) ==
    Len(fields) = n /\ \A i \in 1..Len(fields) : ParseFloat(fields[i]).ok

\* NetworkClient.__init__; player_id is <<>> for None, <<n>> for n.
NetworkClient_init ==
    [connected |-> FALSE, socket |-> "none", last_position_send |-> 0, player_id |-> <<>>]

\* NetworkClient.disconnect
NetworkClient_disconnect(c) ==
    IF c.connected THEN [c EXCEPT !.connected = FALSE, !.socket = "closed"] ELSE c

\* NetworkClient.send_command on the client c and the messages sent so far:
\* [client, sent, exc].  fails says that socket.send raises.
NetworkClient_send_command(c, sent, command, args, fails) ==
    IF ~c.connected
    THEN [client |-> c, sent |-> sent, exc |-> "none"]
    ELSE IF fails
    THEN [client |-> NetworkClient_disconnect(c), sent |-> sent, exc |-> "none"]
    ELSE [client |-> c, sent |-> Append(sent, [command |-> command, args |-> args]),
          exc |-> "none"]

\* The rate limit of send_position, in milliseconds (0.1 s).
PositionInterval == 100

\* send_position with no rate limit.
NetworkClient_send_position_Unlimited(c, sent, t, args, fails) ==
    IF ~c.connected
    THEN [client |-> c, sent |-> sent, exc |-> "none"]
    ELSE LET r == NetworkClient_send_command(c, sent, "P", args, fails)
         IN [client |-> [r.client EXCEPT !.last_position_send = t],
             sent |-> r.sent, exc |-> r.exc]

\* NetworkClient.send_position at time t: [client, sent, exc]
NetworkClient_send_position(c, sent, t, args, fails) ==
    IF ~c.connected
    THEN [client |-> c, sent |-> sent, exc |-> "none"]
    ELSE IF t - c.last_position_send < PositionInterval
    THEN [client |-> c, sent |-> sent, exc |-> "none"]
    ELSE LET r == NetworkClient_send_command(c, sent, "P", args, fails)
         IN [client |-> [r.client EXCEPT !.last_position_send = t],
             sent |-> r.sent, exc |-> r.exc]

\* NetworkClient.send_block_update
NetworkClient_send_block_update(c, sent, x, y, z, block_type, fails) ==
    NetworkClient_send_command(c, sent, "B", <<x, y, z, block_type>>, fails)

\* NetworkClient.request_chunk
NetworkClient_request_chunk(c, sent, p, q, fails) ==
    NetworkClient_send_command(c, sent, "C", <<p, q, 0>>, fails)

\* The B branch writing into the chunk (p, q) that the message names.
ApplyBlockMessage_ByChunk(w, args) ==
    LET key == <<args[1].val, args[2].val>>
    IN IF key \in DOMAIN w.chunks
       THEN [w EXCEPT !.chunks[key] =
                 Chunk_set_block(w.chunks[key], args[3].val, args[4].val,
                                 args[5].val, args[6].val)]
       ELSE w

\* The B branch of _handle_message once its six integers are unpacked:
\* self.game.world.set_block(x, y, z, w).
ApplyBlockMessage(w, args) ==
    World_set_block(w, args[3].val, args[4].val, args[5].val, args[6].val).world

\* The try body of _handle_message on a line split into command and args:
\* [client, world, error, applied].  error says that the body raised, applied
\* that it reached World.set_block.
HandleLine(c, w, line) ==
    LET args == line.args
        quiet == [client |-> c, world |-> w, error |-> FALSE, applied |-> FALSE]
        fails == [quiet EXCEPT !.error = TRUE]
    IN CASE line.command = "U" ->
              IF Len(args) = 0 \/ ~ParseInt(args[1]).ok THEN fails
              ELSE LET c1 == [c EXCEPT !.player_id = <<ParseInt(args[1]).val>>]
                   IN [client |-> c1, world |-> w,
                       error |-> ~UnpackFloats(Slice(args, 2, 7), 5),
                       applied |-> FALSE]
         [] line.command = "B" ->
              IF ~UnpackInts(args, 6) THEN fails
              ELSE [client |-> c, world |-> ApplyBlockMessage(w, args),
                    error |-> FALSE, applied |-> TRUE]
         [] line.command = "P" ->
              IF Len(args) = 0 \/ ~ParseInt(args[1]).ok THEN fails
              ELSE [quiet EXCEPT !.error = ~UnpackFloats(Slice(args, 2, 7), 5)]
         [] line.command = "E" ->
              [quiet EXCEPT !.error = ~UnpackFloats(args, 2)]
         [] OTHER -> quiet

\* _handle_message letting what its body raises reach the caller.
NetworkClient_handle_message_Unguarded(c, w, line) ==
    LET r == HandleLine(c, w, line)
    IN [client |-> r.client, world |-> r.world, error |-> r.error,
        applied |-> r.applied, raised |-> r.error]

\* NetworkClient._handle_message: the body runs inside try/except Exception,
\* which prints and returns.
NetworkClient_handle_message(c, w, line) ==
    LET r == HandleLine(c, w, line)
    IN [client |-> r.client, world |-> r.world, error |-> r.error,
        applied |-> r.applied, raised |-> FALSE]

(* ------------------------------ the system ------------------------------ *)

VARIABLES
    seed,           \* World.seed
    chunks,         \* World.chunks
    loaded_chunks,  \* World.loaded_chunks
    rng,            \* state of the `random` module's generator
    pc,             \* "idle", or "unload" inside World.update after the load step
    call,           \* the World.update call in progress
    last,           \* the last completed operation and what it returned
    prev,           \* the operation completed before `last`
    ops,            \* World operations started so far
    chunk_buffers,  \* Renderer.chunk_buffers
    other,          \* a second World of the same process, once constructed
    heights,        \* the values _get_terrain_height has returned so far
    client,         \* the NetworkClient's fields
    wire,           \* the connection: the peer's end and what was sent on it
    receiver,       \* the receive thread: its position, buffer and last line
    now             \* time.time(), in milliseconds

vars == <<seed, chunks, loaded_chunks, rng, pc, call, last, prev, ops,
          chunk_buffers, other, heights, client, wire, receiver, now>>

\* The network client and its connection.
net == <<client, wire, receiver, now>>

\* What the operations of the first World leave alone.
beside == <<chunk_buffers, other, heights, net>>

TheWorld == [seed |-> seed, chunks |-> chunks, loaded_chunks |-> loaded_chunks, rng |-> rng]

SetWorld(w) ==
    /\ seed' = w.seed
    /\ chunks' = w.chunks
    /\ loaded_chunks' = w.loaded_chunks
    /\ rng' = w.rng

NoCall == [pos |-> <<>>, center |-> <<>>, repeat |-> FALSE, generated |-> {}]

Op(name, args) ==
    [op |-> name, args |-> args, exc |-> "none", type |-> EMPTY, visible |-> <<>>,
     loaded |-> FALSE, generated |-> {}, evicted |-> {}, repeat |-> FALSE,
     rebuilt |-> {}, drawn |-> {}, key |-> <<>>]

\* No connection: nothing sent, no socket.  sent and times are the messages
\* sent on the current connection and when; last_p is when a P last left;
\* failed says that a send or a recv of the current connection has failed or
\* that recv has reported the peer's close.
NoWire ==
    [peer |-> "none", sent |-> <<>>, times |-> <<>>, last_p |-> <<>>, connects |-> 0,
     failed |-> FALSE]

\* No receive thread started.  line, error, raised, applied and during describe
\* the line _handle_message handled last: what it was, whether its body raised,
\* whether the handler raised, whether it reached World.set_block, and where
\* the main thread was at that moment; handled and errors count the lines
\* handled and the bodies that raised, over all connections.
NoReceiver ==
    [pc |-> "none", buffer |-> <<>>, line |-> [command |-> "", args |-> <<>>],
     handled |-> 0, errors |-> 0, error |-> FALSE, raised |-> FALSE,
     applied |-> FALSE, during |-> "idle"]

\* A game that never went multiplayer.
Offline ==
    /\ client = NetworkClient_init
    /\ wire = NoWire
    /\ receiver = NoReceiver
    /\ now = 0

\* No second World yet.
NoOther == [made |-> FALSE, seed |-> 0, chunks |-> NoChunks, loaded_chunks |-> {}]

\* States of the generator before World() is constructed.
UnseededStates == {0}

Init ==
    \E s \in Seeds, r0 \in UnseededStates :
        LET w == World_init(s, r0)
        IN /\ seed = w.seed
           /\ chunks = w.chunks
           /\ loaded_chunks = w.loaded_chunks
           /\ rng = w.rng
           /\ pc = "idle"
           /\ call = NoCall
           /\ last = Op("init", <<s>>)
           /\ prev = Op("none", <<>>)
           /\ ops = 0
           /\ chunk_buffers = NoBuffers
           /\ other = NoOther
           /\ heights = {}
           /\ Offline

Returns(record) ==
    /\ last' = record
    /\ prev' = last

Begin ==
    /\ pc = "idle"
    /\ ops < MaxOps
    /\ ops' = ops + 1

\* world._generate_chunk(p, q) called directly (demo.py)
ForceGenerate(p, q) ==
    /\ Begin
    /\ SetWorld(World_generate_chunk(TheWorld, p, q))
    /\ Returns([Op("generate_chunk", <<p, q>>) EXCEPT !.generated = {<<p, q>>}])
    /\ UNCHANGED <<pc, call>>
    /\ UNCHANGED beside

\* World.update, first half: chunked() of the position and _load_chunks_around
UpdateLoad(pos) ==
    LET center_p == chunked(pos[1])
        center_q == chunked(pos[2])
        s == World_load_chunks_around(TheWorld, center_p, center_q)
    IN /\ Begin
       /\ SetWorld(s.world)
       /\ pc' = "unload"
       /\ call' = [pos |-> pos, center |-> <<center_p, center_q>>,
                   repeat |-> last.op = "update" /\ last.args = pos,
                   generated |-> s.generated]
       /\ UNCHANGED <<last, prev>>
       /\ UNCHANGED beside

\* World.update, second half: _unload_distant_chunks, then return
UpdateUnload ==
    LET w == World_unload_distant_chunks(TheWorld, call.center[1], call.center[2])
    IN /\ pc = "unload"
       /\ SetWorld(w)
       /\ pc' = "idle"
       /\ Returns([Op("update", call.pos) EXCEPT
                      !.generated = call.generated,
                      !.evicted = DOMAIN chunks \ DOMAIN w.chunks,
                      !.repeat = call.repeat])
       /\ call' = NoCall
       /\ UNCHANGED ops
       /\ UNCHANGED beside

\* World.get_block(x, y, z)
GetBlock(x, y, z) ==
    LET r == World_get_block(TheWorld, x, y, z)
    IN /\ Begin
       /\ SetWorld(r.world)
       /\ Returns([Op("get_block", <<x, y, z>>) EXCEPT
                      !.exc = r.exc, !.type = r.type,
                      !.loaded = <<chunked(x), chunked(z)>> \in DOMAIN chunks])
       /\ UNCHANGED <<pc, call>>
       /\ UNCHANGED beside

\* World.set_block(x, y, z, block_type)
SetBlock(x, y, z, block_type) ==
    LET r == World_set_block(TheWorld, x, y, z, block_type)
    IN /\ Begin
       /\ SetWorld(r.world)
       /\ Returns([Op("set_block", <<x, y, z>>) EXCEPT
                      !.exc = r.exc, !.type = block_type,
                      !.loaded = <<chunked(x), chunked(z)>> \in DOMAIN chunks])
       /\ UNCHANGED <<pc, call>>
       /\ UNCHANGED beside

\* World.get_visible_chunks(player_position)
GetVisibleChunks(pos) ==
    LET r == World_get_visible_chunks(TheWorld, pos[1], pos[2])
    IN /\ Begin
       /\ SetWorld(r.world)
       /\ Returns([Op("get_visible_chunks", pos) EXCEPT
                      !.exc = r.exc, !.visible = r.visible])
       /\ UNCHANGED <<pc, call>>
       /\ UNCHANGED beside

Next ==
    \/ \E c \in ForcedChunks : ForceGenerate(c[1], c[2])
    \/ \E pos \in PlayerPositions : UpdateLoad(pos)
    \/ UpdateUnload
    \/ \E b \in BlockCoords : GetBlock(b[1], b[2], b[3])
    \/ \E b \in BlockCoords, t \in WrittenTypes : SetBlock(b[1], b[2], b[3], t)
    \/ \E pos \in PlayerPositions : GetVisibleChunks(pos)

Spec == Init /\ [][Next]_vars

(* ----------------------- the world and its renderer --------------------- *)

\* Player positions of the rendered world: chunk (0,0) and chunk (3,0).
RenderPositions == {<<5, 5>>, <<100, 5>>}

\* Blocks written in the rendered world: two that touch across the border of
\* chunk (0,0) and chunk (1,0), above the terrain.
RenderBlockCoords == {<<31, 40, 5>>, <<32, 40, 5>>}

\* Renderer.render_world(world, player, timer), the player at pos
Render(pos) ==
    LET r == Renderer_render_world(TheWorld, chunk_buffers, pos[1], pos[2])
    IN /\ pc = "idle"
       /\ chunks' = r.chunks
       /\ chunk_buffers' = r.buffers
       /\ Returns([Op("render", pos) EXCEPT
                      !.visible = r.visible, !.rebuilt = r.rebuilt, !.drawn = r.drawn])
       /\ UNCHANGED <<seed, loaded_chunks, rng, pc, call, ops, other, heights, net>>

RenderNext ==
    \/ \E pos \in RenderPositions : UpdateLoad(pos)
    \/ UpdateUnload
    \/ \E b \in RenderBlockCoords, t \in WrittenTypes : SetBlock(b[1], b[2], b[3], t)
    \/ \E pos \in RenderPositions : Render(pos)

SpecRender == Init /\ [][RenderNext]_vars

(* ------------------------ two Worlds in one process --------------------- *)

\* Chunk coordinates generated in the two Worlds.
TwinChunks == {<<0, 0>>, <<1, 0>>}

\* Columns (x, z) whose terrain height is asked for.
TwinColumns == {<<5, 5>>}

\* The second World, the craft_world of the server's compatibility World,
\* with the generator both Worlds draw from.
OtherWorld ==
    [seed |-> other.seed, chunks |-> other.chunks,
     loaded_chunks |-> other.loaded_chunks, rng |-> rng]

SetOther(w) ==
    /\ other' = [made |-> TRUE, seed |-> w.seed, chunks |-> w.chunks,
                 loaded_chunks |-> w.loaded_chunks]
    /\ rng' = w.rng

\* World(seed=s) followed by the compatibility World(seed=s) of world.py
TwinInit ==
    \E s \in Seeds, r0 \in UnseededStates :
        LET w == World_init(s, r0)
            o == World_init(s, w.rng)
        IN /\ seed = w.seed
           /\ chunks = w.chunks
           /\ loaded_chunks = w.loaded_chunks
           /\ other = [made |-> TRUE, seed |-> o.seed, chunks |-> o.chunks,
                       loaded_chunks |-> o.loaded_chunks]
           /\ rng = o.rng
           /\ pc = "idle"
           /\ call = NoCall
           /\ last = Op("init", <<s>>)
           /\ prev = Op("none", <<>>)
           /\ ops = 0
           /\ chunk_buffers = NoBuffers
           /\ heights = {}
           /\ Offline

\* The compatibility World is constructed anew: World(seed=s)
ConstructOther(s) ==
    /\ Begin
    /\ SetOther(World_init(s, rng))
    /\ Returns(Op("other_init", <<s>>))
    /\ UNCHANGED <<seed, chunks, loaded_chunks, pc, call, chunk_buffers, heights, net>>

\* create_chunk(p, q) of the compatibility World
OtherCreateChunk(p, q) ==
    LET r == Compat_create_chunk(OtherWorld, p, q)
    IN /\ Begin
       /\ SetOther(r.world)
       /\ Returns([Op("other_create_chunk", <<p, q>>) EXCEPT
                      !.generated = DOMAIN r.world.chunks \ DOMAIN other.chunks])
       /\ UNCHANGED <<seed, chunks, loaded_chunks, pc, call, chunk_buffers, heights, net>>

\* world._get_terrain_height(x, z) on the first World
TerrainHeight(x, z) ==
    /\ Begin
    /\ heights' = heights \cup
           {[who |-> "world", seed |-> seed, at |-> ops, x |-> x, z |-> z,
             height |-> World_get_terrain_height(TheWorld, x, z)]}
    /\ Returns(Op("terrain_height", <<x, z>>))
    /\ UNCHANGED <<seed, chunks, loaded_chunks, rng, pc, call, chunk_buffers, other, net>>

\* _get_terrain_height(x, z) on the second World
OtherTerrainHeight(x, z) ==
    /\ Begin
    /\ heights' = heights \cup
           {[who |-> "other", seed |-> other.seed, at |-> ops, x |-> x, z |-> z,
             height |-> World_get_terrain_height(OtherWorld, x, z)]}
    /\ Returns(Op("other_terrain_height", <<x, z>>))
    /\ UNCHANGED <<seed, chunks, loaded_chunks, rng, pc, call, chunk_buffers, other, net>>

TwinNext ==
    \/ \E c \in TwinChunks : ForceGenerate(c[1], c[2])
    \/ \E c \in TwinChunks : OtherCreateChunk(c[1], c[2])
    \/ \E s \in Seeds : ConstructOther(s)
    \/ \E c \in TwinColumns : TerrainHeight(c[1], c[2])
    \/ \E c \in TwinColumns : OtherTerrainHeight(c[1], c[2])

SpecTwin == TwinInit /\ [][TwinNext]_vars

(* --------------------------- one chunk, one mesh ------------------------ *)

\* The cells written: the 2 x 2 x 2 cube at the origin of chunk (0, 0).
MeshCells == {<<x, y, z>> : x \in 0..1, y \in 0..1, z \in 0..1}

\* The types written to a cell: solid or nothing everywhere, and the
\* transparent GLASS and LEAVES too in the two cells of the edge y = z = 0.
MeshTypes(cell) ==
    IF cell[2] = 0 /\ cell[3] = 0 THEN {EMPTY, STONE, GLASS, LEAVES} ELSE {EMPTY, STONE}

\* The chunk the mesh is built of.
MeshChunk == chunks[<<0, 0>>]

\* chunk = Chunk(0, 0), empty, kept under its key
MeshInit ==
    /\ seed \in Seeds
    /\ chunks = (<<0, 0>> :> Chunk_init(0, 0))
    /\ loaded_chunks = {<<0, 0>>}
    /\ rng = RandomSeed(seed)
    /\ pc = "idle"
    /\ call = NoCall
    /\ last = Op("init", <<seed>>)
    /\ prev = Op("none", <<>>)
    /\ ops = 0
    /\ chunk_buffers = NoBuffers
    /\ other = NoOther
    /\ heights = {}
    /\ Offline

\* chunk.set_block(x, y, z, block_type)
ChunkSetBlock(x, y, z, block_type) ==
    /\ pc = "idle"
    /\ chunks' = (<<0, 0>> :> Chunk_set_block(MeshChunk, x, y, z, block_type))
    /\ UNCHANGED <<seed, loaded_chunks, rng, pc, call, last, prev, ops, beside>>

\* renderer._build_chunk_mesh(chunk), after which the chunk is left alone
BuildChunkMesh ==
    /\ pc = "idle"
    /\ chunk_buffers' = Renderer_build_chunk_mesh(chunk_buffers, MeshChunk)
    /\ pc' = "built"
    /\ Returns(Op("build_chunk_mesh", <<0, 0>>))
    /\ UNCHANGED <<seed, chunks, loaded_chunks, rng, call, ops, other, heights, net>>

MeshNext ==
    \/ \E cell \in MeshCells : \E t \in MeshTypes(cell) :
           ChunkSetBlock(cell[1], cell[2], cell[3], t)
    \/ BuildChunkMesh

SpecMesh == MeshInit /\ [][MeshNext]_vars

(* ------------------------------- the claims ----------------------------- *)

\* The chunk coordinate of a position (x, z), by the bounding boxes.
CenterOf(pos) ==
    <<CHOOSE p \in -8..8 : p * CHUNK_SIZE <= pos[1] /\ pos[1] < (p + 1) * CHUNK_SIZE,
      CHOOSE q \in -8..8 : q * CHUNK_SIZE <= pos[2] /\ pos[2] < (q + 1) * CHUNK_SIZE>>

\* Chebyshev distance of chunk coordinate k from chunk coordinate c.
Distance(k, c) ==
    LET dp == IF k[1] >= c[1] THEN k[1] - c[1] ELSE c[1] - k[1]
        dq == IF k[2] >= c[2] THEN k[2] - c[2] ELSE c[2] - k[2]
    IN IF dp >= dq THEN dp ELSE dq

Within(c, radius) ==
    {<<c[1] + dp, c[2] + dq>> : dp \in -radius..radius, dq \in -radius..radius}

UpdateReturned == pc = "idle" /\ last.op = "update"

\* The chunk owning block coordinate args = <<x, y, z>>.
OwnerOf(args) == CenterOf(<<args[1], args[3]>>)

\* This step completes the operation named op.
Completes(op) == pc = "idle" /\ pc' = "idle" /\ ops' = ops + 1 /\ last'.op = op

\* C1: after World.update(pos) returns, every chunk of the mapping is within
\* DELETE_CHUNK_RADIUS (Chebyshev) of the player's chunk and every chunk
\* within CREATE_CHUNK_RADIUS of it is in the mapping, whatever updates and
\* forced _generate_chunk calls came before.
C1_EvictionCorrect ==
    UpdateReturned =>
        /\ \A k \in DOMAIN chunks : Distance(k, CenterOf(last.args)) <= DELETE_CHUNK_RADIUS
        /\ Within(CenterOf(last.args), CREATE_CHUNK_RADIUS) \subseteq DOMAIN chunks

\* An update that followed a forced generation and evicted chunks.
C1_Witness ==
    /\ UpdateReturned
    /\ prev.op = "generate_chunk"
    /\ last.evicted # {}
    /\ last.generated # {}

\* C2: World.update(pos) repeated with the same pos generates nothing, evicts
\* nothing, leaves the mapping and the loaded set as they were and draws no
\* random number; and no update call evicts a chunk it generated.
C2_UpdateIdempotent ==
    /\ [][(pc' # pc /\ (call.repeat \/ call'.repeat))
            => UNCHANGED <<chunks, loaded_chunks, rng>>]_vars
    /\ [](last.op = "update" =>
            /\ last.repeat => (last.generated = {} /\ last.evicted = {})
            /\ last.generated \cap last.evicted = {})

\* The second of two updates with one position has returned, in a world
\* that holds chunks.
C2_Witness ==
    /\ UpdateReturned
    /\ last.repeat
    /\ prev.op = "update"
    /\ prev.generated # {}

\* C3: when the owning chunk is loaded, set_block(x, y, z, t) followed at
\* once by get_block(x, y, z) returns type t, for EMPTY and for negative
\* coordinates too.
C3_SetThenGet ==
    (last.op = "get_block" /\ prev.op = "set_block" /\ prev.args = last.args /\ prev.loaded)
        => (last.exc = "none" /\ last.type = prev.type)

\* A block at negative x and z was overwritten and read back.
C3_Witness ==
    /\ last.op = "get_block"
    /\ prev.op = "set_block"
    /\ prev.args = last.args
    /\ prev.loaded
    /\ last.args[1] < 0
    /\ last.args[3] < 0
    /\ prev.type = GRASS

\* C4: every key (x, y, z) of a chunk's block map lies in the chunk's
\* footprint: min_x <= x <= max_x and min_z <= z <= max_z.
C4_BlocksInsideFootprint ==
    \A k \in DOMAIN chunks : \A b \in DOMAIN chunks[k].blocks :
        /\ k[1] * CHUNK_SIZE <= b[1] /\ b[1] <= k[1] * CHUNK_SIZE + CHUNK_SIZE - 1
        /\ k[2] * CHUNK_SIZE <= b[3] /\ b[3] <= k[2] * CHUNK_SIZE + CHUNK_SIZE - 1

\* C5: between operations, loaded_chunks is the key set of chunks.
C5_LoadedIsKeySet == pc = "idle" => loaded_chunks = DOMAIN chunks

\* An update that generated chunks and evicted others has returned.
C5_Witness ==
    /\ UpdateReturned
    /\ last.generated # {}
    /\ last.evicted # {}
    /\ loaded_chunks # {}

\* C6: no block map holds an entry of type EMPTY.
C6_NoEmptyEntry ==
    \A k \in DOMAIN chunks : \A b \in DOMAIN chunks[k].blocks : chunks[k].blocks[b] # EMPTY

\* EMPTY was written over a stored block of a loaded chunk.
C6_Witness ==
    /\ last.op = "set_block"
    /\ last.type = EMPTY
    /\ last.loaded
    /\ last.args = <<-1, 3, -1>>
    /\ last.args \notin DOMAIN chunks[OwnerOf(last.args)].blocks

\* C7: once the load step of World.update(pos) has finished, the chunk of
\* the player's position is in the mapping for the rest of the call and
\* when it returns: eviction never removes it.
C7_PlayerChunkStays ==
    /\ pc = "unload" => CenterOf(call.pos) \in DOMAIN chunks
    /\ UpdateReturned => CenterOf(last.args) \in DOMAIN chunks

\* An update whose eviction step removed chunks has returned.
C7_Witness ==
    /\ UpdateReturned
    /\ last.evicted # {}
    /\ CenterOf(last.args) \in last.generated

\* C8: World.get_block never raises, and returns EMPTY when the owning chunk
\* is not loaded or holds no entry at the coordinate.
C8_GetBlockTotal ==
    last.op = "get_block" =>
        /\ last.exc = "none"
        /\ (\/ OwnerOf(last.args) \notin DOMAIN chunks
            \/ last.args \notin DOMAIN chunks[OwnerOf(last.args)].blocks)
              => last.type = EMPTY

\* A read with y above 255 in a loaded chunk returned.
C8_Witness ==
    /\ last.op = "get_block"
    /\ last.loaded
    /\ last.args[2] > 255
    /\ last.type = EMPTY

\* C9: get_block and get_visible_chunks change nothing of the world; chunks
\* appear and random numbers are drawn only in the load step of update (or
\* in a direct call of _generate_chunk).
C9_ReadsArePure ==
    /\ [][(Completes("get_block") \/ Completes("get_visible_chunks"))
            => UNCHANGED <<seed, chunks, loaded_chunks, rng>>]_vars
    /\ [][(DOMAIN chunks' # DOMAIN chunks \/ rng' # rng)
            => (pc # pc' \/ Completes("generate_chunk"))]_vars

\* A read of a block whose chunk is not loaded returned.
C9_Witness ==
    /\ last.op = "get_block"
    /\ ~last.loaded
    /\ prev.op = "get_visible_chunks"
    /\ chunks # NoChunks

\* C10: set_block on a coordinate whose chunk is not loaded raises nothing
\* and changes nothing, and a get_block that follows returns EMPTY.
C10_SetUnloadedIsNoOp ==
    /\ [][(Completes("set_block") /\ ~last'.loaded)
            => (last'.exc = "none" /\ UNCHANGED <<seed, chunks, loaded_chunks, rng>>)]_vars
    /\ []((last.op = "get_block" /\ prev.op = "set_block" /\ prev.args = last.args
             /\ ~prev.loaded)
            => (last.exc = "none" /\ last.type = EMPTY))

\* GRASS was written to an unloaded chunk and the coordinate read back.
C10_Witness ==
    /\ last.op = "get_block"
    /\ prev.op = "set_block"
    /\ prev.args = last.args
    /\ ~prev.loaded
    /\ prev.type = GRASS
    /\ chunks # NoChunks

\* The elements of a list.
Range(seq) == {seq[i] : i \in 1..Len(seq)}

\* C11: Chunk.set_block leaves the chunk dirty whatever type is written and
\* whatever was stored there, a chunk the renderer had marked clean included;
\* writing EMPTY at a key that has no entry leaves the number of stored blocks
\* as it was and still leaves the chunk dirty.
C11_SetBlockDirties ==
    [][(Completes("set_block") /\ last'.loaded)
         => LET owner == OwnerOf(last'.args)
            IN /\ chunks'[owner].dirty
               /\ (last'.type = EMPTY /\ last'.args \notin DOMAIN chunks[owner].blocks)
                    => Cardinality(DOMAIN chunks'[owner].blocks)
                         = Cardinality(DOMAIN chunks[owner].blocks)]_vars

\* EMPTY was written at a coordinate never written before, into a chunk the
\* renderer had just rebuilt and marked clean.
C11_Witness ==
    /\ last.op = "set_block"
    /\ last.loaded
    /\ last.type = EMPTY
    /\ prev.op = "render"
    /\ OwnerOf(last.args) \in prev.rebuilt
    /\ ops = 2
    /\ chunks[OwnerOf(last.args)].dirty

\* C12: get_visible_chunks(pos) returns exactly the chunks of the mapping
\* whose Chebyshev distance from the player's chunk is at most
\* RENDER_CHUNK_RADIUS: each of them once, none that is farther, none that is
\* not in the mapping.
C12_VisibleExact ==
    (pc = "idle" /\ last.op = "get_visible_chunks")
      => /\ Range(last.visible)
              = {k \in DOMAIN chunks : Distance(k, CenterOf(last.args)) <= RENDER_CHUNK_RADIUS}
         /\ \A i, j \in 1..Len(last.visible) :
                last.visible[i] = last.visible[j] => i = j

\* The call returned some of the loaded chunks and left out others, among
\* them one exactly RENDER_CHUNK_RADIUS away.
C12_Witness ==
    /\ pc = "idle"
    /\ last.op = "get_visible_chunks"
    /\ \E k \in Range(last.visible) : Distance(k, CenterOf(last.args)) = RENDER_CHUNK_RADIUS
    /\ \E k \in DOMAIN chunks : Distance(k, CenterOf(last.args)) > RENDER_CHUNK_RADIUS

\* C13: when get_visible_chunks(pos) is called right after update(pos) has
\* returned, its result holds a generated chunk for every chunk coordinate
\* within RENDER_CHUNK_RADIUS of the player's chunk: the visible area has no
\* hole.
C13_NoHoles ==
    (pc = "idle" /\ last.op = "get_visible_chunks" /\ prev.op = "update"
       /\ prev.args = last.args)
      => \A k \in Within(CenterOf(last.args), RENDER_CHUNK_RADIUS) :
             /\ k \in Range(last.visible)
             /\ k \in DOMAIN chunks
             /\ chunks[k].generated

\* The visible chunks were asked for right after an update at the same
\* position that had to generate some of them, others being loaded already.
C13_Witness ==
    /\ pc = "idle"
    /\ last.op = "get_visible_chunks"
    /\ prev.op = "update"
    /\ prev.args = last.args
    /\ prev.generated # {}
    /\ Within(CenterOf(last.args), RENDER_CHUNK_RADIUS) \ prev.generated # {}

\* C14: two Worlds constructed with the same seed hold identical block maps
\* (terrain, plants and trees) for the same chunk coordinate, whatever other
\* chunks were generated before it, in whatever order, whether the chunk was
\* generated once or generated again, and whether a World was constructed in
\* between.
C14_SameSeedSameChunk ==
    (other.made /\ other.seed = seed)
      => \A k \in DOMAIN chunks \cap DOMAIN other.chunks :
             chunks[k].blocks = other.chunks[k].blocks

StoredType(chunk, key) ==
    IF key \in DOMAIN chunk.blocks THEN chunk.blocks[key] ELSE EMPTY

FaceFloats(f) == Renderer_get_face_vertices(f[1], f[2], f[3], f[4], f[5])

PickFace(faces) == CHOOSE f \in faces : TRUE

\* The length of the list of floats a buffer with these faces is.
RECURSIVE FloatCount(_)
FloatCount(faces) ==
    IF faces = {} THEN 0
    ELSE Len(FaceFloats(PickFace(faces))) + FloatCount(faces \ {PickFace(faces)})

\* The cell a face <<x, y, z, face, type>> looks at.
FacedCell(f) ==
    LET d == CHOOSE d \in Range(directions) : d[1] = f[4]
    IN <<f[1] + d[2], f[2] + d[3], f[3] + d[4]>>

\* C17: a mesh holds 6 vertices of 5 floats, 30 floats, per emitted face; a
\* block alone in its chunk gives 6 faces and 36 vertices; a solid 2 x 2 x 2
\* cube of one material gives its 24 outer faces and none of the faces
\* between its blocks; a chunk without blocks gets the buffer None.
C17_MeshShape ==
    pc = "built"
      => LET buffer == chunk_buffers[<<0, 0>>]
             stored == DOMAIN MeshChunk.blocks
         IN /\ \A f \in buffer.faces : Len(FaceFloats(f)) = 6 * 5
            /\ FloatCount(buffer.faces) = 30 * Cardinality(buffer.faces)
            /\ Cardinality(stored) = 1
                 => (Cardinality(buffer.faces) = 6 /\ FloatCount(buffer.faces) = 36 * 5)
            /\ (stored = MeshCells /\ \A k \in stored : MeshChunk.blocks[k] = STONE)
                 => /\ Cardinality(buffer.faces) = 24
                    /\ \A f \in buffer.faces : FacedCell(f) \notin MeshCells
            /\ stored = {} => buffer.none

\* A mesh was built of the full cube of STONE.
C17_Witness ==
    /\ pc = "built"
    /\ DOMAIN MeshChunk.blocks = MeshCells
    /\ \A k \in MeshCells : MeshChunk.blocks[k] = STONE
    /\ ~chunk_buffers[<<0, 0>>].none

\* The type the World stores at a cell: that of the chunk owning the cell,
\* EMPTY where that chunk is not loaded or stores nothing.
WorldType(cell) ==
    IF OwnerOf(cell) \in DOMAIN chunks THEN StoredType(chunks[OwnerOf(cell)], cell) ELSE EMPTY

\* C18: at a chunk edge the neighbour of a face is the block the adjacent
\* chunk stores, found through the World: when two solid blocks touch across
\* the border of two loaded chunks, the mesh of neither chunk holds the face
\* between them.
C18_NoFaceAcrossBorder ==
    (pc = "idle" /\ last.op = "render")
      => \A id \in last.drawn : \A f \in chunk_buffers[id].faces :
             LET cell == <<f[1], f[2], f[3]>>
             IN (/\ OwnerOf(cell) = id
                 /\ OwnerOf(FacedCell(f)) # id
                 /\ OwnerOf(FacedCell(f)) \in DOMAIN chunks
                 /\ Block_is_solid(WorldType(cell)))
                  => ~Block_is_solid(WorldType(FacedCell(f)))

\* This step is a call of render_world.
Renders == pc = "idle" /\ pc' = "idle" /\ ops' = ops /\ last'.op = "render"

\* C19: rendering a generated chunk rebuilds its vertex buffer exactly when
\* the chunk's dirty flag is set at that moment, to the mesh of its blocks,
\* and leaves the flag false; rendering a clean chunk leaves its buffer as it
\* was.
C19_RebuildIffDirty ==
    [][Renders
         => \A id \in Range(last'.visible) :
                chunks[id].generated
                  => /\ id \in last'.rebuilt <=> chunks[id].dirty
                     /\ ~chunks'[id].dirty
                     /\ chunks[id].dirty
                          => chunk_buffers'[id]
                               = Renderer_build_chunk_mesh(NoBuffers, chunks[id])[id]
                     /\ ~chunks[id].dirty
                          => /\ id \in DOMAIN chunk_buffers
                             /\ chunk_buffers'[id] = chunk_buffers[id]]_vars

\* A render found a chunk that set_block had dirtied since the render before
\* and rebuilt it, and found other chunks clean and did not rebuild them.
C19_Witness ==
    /\ last.op = "render"
    /\ prev.op = "set_block"
    /\ prev.loaded
    /\ OwnerOf(prev.args) \in last.rebuilt
    /\ Range(last.visible) \ last.rebuilt # {}
    /\ \A id \in Range(last.visible) : ~chunks[id].dirty

\* The buffer _build_chunk_mesh gives the chunk as it is now.
MeshOf(chunk) == Renderer_build_chunk_mesh(NoBuffers, chunk)[<<chunk.p, chunk.q>>]

\* C20: through every sequence of update, set_block and render calls, a
\* chunk evicted and generated again at its coordinate included, the buffer a
\* render draws for a chunk is the mesh of the block map the chunk has then:
\* after a render every visible chunk's buffer is that mesh and is drawn unless
\* None, and at all times the buffer of a chunk that is marked clean is the
\* mesh of its blocks.
C20_DrawnIsCurrent ==
    /\ (pc = "idle" /\ last.op = "render")
         => \A id \in Range(last.visible) :
                /\ id \in DOMAIN chunk_buffers
                /\ chunk_buffers[id] = MeshOf(chunks[id])
                /\ id \in last.drawn <=> ~chunk_buffers[id].none
    /\ \A id \in DOMAIN chunks :
           ~chunks[id].dirty
             => (id \in DOMAIN chunk_buffers /\ chunk_buffers[id] = MeshOf(chunks[id]))

\* Chunk (0,0) was rendered, evicted, generated again by the last update and
\* rendered again: the render rebuilt it, and found chunk (1,0), loaded all
\* along, still clean from the first render.
C20_Witness ==
    /\ last.op = "render"
    /\ prev.op = "update"
    /\ <<0, 0>> \in prev.generated
    /\ <<0, 0>> \in last.rebuilt
    /\ <<1, 0>> \in Range(last.visible) \ last.rebuilt
    /\ <<0, 0>> \in last.drawn

(* --------------------------- the network scenarios ---------------------- *)

MaxCalls == 4

MaxLines == 2

MaxConnects == 2

MaxClock == 250

\* time.time() when the game starts, and how far it moves between two calls.
StartTimes == {1000}

TickSteps == {50, 100}

\* The chunk the game asks the server for, and the block change it reports.
SentChunks == {<<0, 0>>}

SentBlocks == {<<5, 10, 5, GRASS>>}

\* player.position and rotation as send_position reads them.
PlayerPose == <<5, 20, 5, 0, 0>>

OnlineInit ==
    /\ \E s \in Seeds, r0 \in UnseededStates :
           LET w == World_init(s, r0)
           IN /\ seed = w.seed
              /\ chunks = w.chunks
              /\ loaded_chunks = w.loaded_chunks
              /\ rng = w.rng
    /\ pc = "idle"
    /\ call = NoCall
    /\ last = Op("init", <<>>)
    /\ prev = Op("none", <<>>)
    /\ ops = 0
    /\ chunk_buffers = NoBuffers
    /\ other = NoOther
    /\ heights = {}
    /\ client = NetworkClient_init
    /\ wire = NoWire
    /\ receiver = NoReceiver
    /\ now \in StartTimes

\* What a call of the network client leaves alone.
offline == <<seed, chunks, loaded_chunks, rng, call, chunk_buffers, other, heights>>

Calling ==
    /\ pc = "idle"
    /\ ops < MaxCalls
    /\ ops' = ops + 1

\* The wire after a send_command that returned r.
Sent(r) ==
    LET left == Len(r.sent) > Len(wire.sent)
    IN wire' = [wire EXCEPT
                   !.sent = r.sent,
                   !.times = IF left THEN Append(wire.times, now) ELSE wire.times,
                   !.last_p = IF left /\ r.sent[Len(r.sent)].command = "P"
                              THEN <<now>> ELSE wire.last_p,
                   !.failed = wire.failed \/ (client.connected /\ ~r.client.connected)]

\* NetworkClient.connect up to and including the start of the receive thread
\* (ok), or up to the except branch (socket.connect raised), which leaves the
\* socket it created as it is, not closed; it returns 1 for True and 0 for
\* False.  It is called
\* when no receive thread of an earlier connection is still alive.
Connect(ok) ==
    /\ Calling
    /\ receiver.pc \in {"none", "done"}
    /\ wire.connects < MaxConnects
    /\ IF ok
       THEN /\ client' = [client EXCEPT !.connected = TRUE, !.socket = "open"]
            /\ wire' = [wire EXCEPT !.peer = "open", !.sent = <<>>, !.times = <<>>,
                                    !.connects = wire.connects + 1, !.failed = FALSE]
            /\ receiver' = [receiver EXCEPT !.pc = "loop", !.buffer = <<>>]
            /\ pc' = "version"
            /\ UNCHANGED <<last, prev>>
       ELSE /\ client' = [client EXCEPT !.connected = FALSE, !.socket = "unconnected"]
            /\ Returns(Op("connect", <<0>>))
            /\ UNCHANGED <<wire, receiver, pc>>
    /\ UNCHANGED <<offline, now>>

\* connect returning True without announcing the protocol version.
SendVersion_Skipped(fails) ==
    /\ pc = "version"
    /\ pc' = "idle"
    /\ Returns(Op("connect", <<1>>))
    /\ UNCHANGED <<offline, ops, client, wire, receiver, now>>

\* NetworkClient.connect, the rest: self.send_command('V', '1'); return True
SendVersion(fails) ==
    LET r == NetworkClient_send_command(client, wire.sent, "V", <<1>>, fails)
    IN /\ pc = "version"
       /\ client' = r.client
       /\ Sent(r)
       /\ pc' = "idle"
       /\ Returns([Op("connect", <<1>>) EXCEPT !.exc = r.exc])
       /\ UNCHANGED <<offline, ops, receiver, now>>

\* NetworkClient.disconnect
Disconnect ==
    /\ Calling
    /\ client' = NetworkClient_disconnect(client)
    /\ Returns(Op("disconnect", <<>>))
    /\ UNCHANGED <<offline, pc, wire, receiver, now>>

\* MultiplayerGame.update: if self.client.connected: self.client.send_position()
SendPosition(fails) ==
    LET r == NetworkClient_send_position(client, wire.sent, now, PlayerPose, fails)
    IN /\ Calling
       /\ client' = r.client
       /\ Sent(r)
       /\ Returns([Op("send_position", <<now>>) EXCEPT !.exc = r.exc])
       /\ UNCHANGED <<offline, pc, receiver, now>>

\* NetworkClient.request_chunk(p, q)
RequestChunk(p, q, fails) ==
    LET r == NetworkClient_request_chunk(client, wire.sent, p, q, fails)
    IN /\ Calling
       /\ client' = r.client
       /\ Sent(r)
       /\ Returns([Op("request_chunk", <<p, q>>) EXCEPT !.exc = r.exc])
       /\ UNCHANGED <<offline, pc, receiver, now>>

\* NetworkClient.send_block_update(x, y, z, block_type)
SendBlockUpdate(x, y, z, block_type, fails) ==
    LET r == NetworkClient_send_block_update(client, wire.sent, x, y, z, block_type, fails)
    IN /\ Calling
       /\ client' = r.client
       /\ Sent(r)
       /\ Returns([Op("send_block_update", <<x, y, z>>) EXCEPT
                      !.exc = r.exc, !.type = block_type])
       /\ UNCHANGED <<offline, pc, receiver, now>>

\* Time passes between two calls of the main thread.
Tick(d) ==
    /\ \E t \in StartTimes : now + d <= t + MaxClock
    /\ now' = now + d
    /\ UNCHANGED <<offline, pc, last, prev, ops, client, wire, receiver>>

\* The server closes its end of the connection.
PeerCloses ==
    /\ wire.peer = "open"
    /\ wire' = [wire EXCEPT !.peer = "closed"]
    /\ UNCHANGED <<offline, pc, last, prev, ops, client, receiver, now>>

\* _receive_loop leaving its while loop: self.connected = False
ReceiverExits ==
    /\ receiver' = [receiver EXCEPT !.pc = "done", !.buffer = <<>>]
    /\ client' = [client EXCEPT !.connected = FALSE]

\* _receive_loop: while self.connected
ReceiveLoop ==
    /\ receiver.pc = "loop"
    /\ IF client.connected
       THEN /\ receiver' = [receiver EXCEPT !.pc = "recv"]
            /\ UNCHANGED client
       ELSE ReceiverExits
    /\ UNCHANGED <<offline, pc, last, prev, ops, wire, now>>

\* _receive_loop: recv returns the complete lines of batch
Receive(batch) ==
    /\ receiver.pc = "recv"
    /\ client.socket = "open"
    /\ wire.peer = "open"
    /\ receiver.handled + Len(batch) <= MaxLines
    /\ receiver' = [receiver EXCEPT !.pc = "lines", !.buffer = batch]
    /\ UNCHANGED <<offline, pc, last, prev, ops, client, wire, now>>

\* _receive_loop: recv returns no data (the peer closed) or raises (the socket
\* was closed by disconnect, or the connection broke): break
ReceiveEnds ==
    /\ receiver.pc = "recv"
    /\ ReceiverExits
    /\ wire' = [wire EXCEPT !.failed = TRUE]
    /\ UNCHANGED <<offline, pc, last, prev, ops, now>>

\* _receive_loop: one turn of `while '\n' in buffer`, which does not look at
\* self.connected: self._handle_message(line), on the receive thread
HandleMessage ==
    LET line == Head(receiver.buffer)
        r == NetworkClient_handle_message(client, TheWorld, line)
        rest == Tail(receiver.buffer)
        told == [receiver EXCEPT
                    !.line = line, !.handled = receiver.handled + 1,
                    !.errors = receiver.errors + (IF r.error THEN 1 ELSE 0),
                    !.error = r.error, !.raised = r.raised, !.applied = r.applied,
                    !.during = pc]
    IN /\ receiver.pc = "lines"
       /\ SetWorld(r.world)
       /\ IF r.raised
          THEN /\ receiver' = [told EXCEPT !.pc = "done", !.buffer = <<>>]
               /\ client' = [r.client EXCEPT !.connected = FALSE]
          ELSE /\ receiver' = [told EXCEPT !.buffer = rest,
                                           !.pc = IF rest = <<>> THEN "loop" ELSE "lines"]
               /\ client' = r.client
       /\ UNCHANGED <<pc, call, last, prev, ops, chunk_buffers, other, heights, wire, now>>

(* Outbound traffic: connect, send, disconnect, reconnect, with the clock. *)

OutNext ==
    \/ \E ok \in BOOLEAN : Connect(ok)
    \/ \E fails \in BOOLEAN : SendVersion(fails)
    \/ Disconnect
    \/ \E fails \in BOOLEAN : SendPosition(fails)
    \/ \E k \in SentChunks, fails \in BOOLEAN : RequestChunk(k[1], k[2], fails)
    \/ \E b \in SentBlocks, fails \in BOOLEAN :
           SendBlockUpdate(b[1], b[2], b[3], b[4], fails)
    \/ \E d \in TickSteps : Tick(d)
    \/ PeerCloses
    \/ ReceiveLoop
    \/ ReceiveEnds

SpecOut == OnlineInit /\ [][OutNext]_vars

\* C21: the renderer drops the buffer of a chunk World.update evicts: after
\* any updates and renders, every key of Renderer.chunk_buffers is the
\* coordinate of a chunk that is loaded.
C21_BuffersOfLoadedOnly ==
    pc = "idle" => DOMAIN chunk_buffers \subseteq DOMAIN chunks

\* Every column of the chunk's footprint that generation visits holds its
\* terrain: a block at every y from 0 to the terrain height.
ColumnsFilled(chunk) ==
    \A i \in 1..Len(ColumnsOf(chunk.p, chunk.q)) :
        LET x == chunk.min_x + ColumnsOf(chunk.p, chunk.q)[i][1]
            z == chunk.min_z + ColumnsOf(chunk.p, chunk.q)[i][2]
        IN \A y \in 0..World_get_terrain_height(TheWorld, x, z) :
               <<x, y, z>> \in DOMAIN chunk.blocks

\* C30: every chunk of World.chunks has generated = true, and a chunk enters
\* the mapping only with all the columns of its footprint filled: no partly
\* generated chunk can be seen through get_chunk, get_block or
\* get_visible_chunks.
C30_OnlyWholeChunks ==
    /\ [](\A k \in DOMAIN chunks : chunks[k].generated)
    /\ [][\A k \in DOMAIN chunks' \ DOMAIN chunks :
              chunks'[k].generated /\ ColumnsFilled(chunks'[k])]_vars
    /\ []((pc = "idle" /\ last.op = "get_visible_chunks")
            => \A k \in Range(last.visible) : chunks[k].generated)

\* get_visible_chunks returned chunks that the update before it had just
\* generated.
C30_Witness ==
    /\ pc = "idle"
    /\ last.op = "get_visible_chunks"
    /\ prev.op = "update"
    /\ Range(last.visible) \cap prev.generated # {}
    /\ \A k \in Range(last.visible) : ColumnsFilled(chunks[k])

(* Inbound traffic: the receive thread handling lines of every shape. *)

Line(command, args) == [command |-> command, args |-> args]

Floats5 == <<FloatField(1), FloatField(2), FloatField(3), FloatField(0), FloatField(0)>>

Block(p, q, x, y, z, w) ==
    Line("B", <<IntField(p), IntField(q), IntField(x), IntField(y), IntField(z), IntField(w)>>)

\* Lines as the protocol describes them.
GoodLines ==
    { Line("U", <<IntField(7)>> \o Floats5),
      Block(0, 0, 5, 10, 5, EMPTY),
      Block(5, 0, 5, 10, 5, WOOD),
      Block(3, 0, 100, 10, 5, GRASS),
      Line("P", <<IntField(2)>> \o Floats5),
      Line("T", <<TextField>>),
      Line("E", <<FloatField(1), FloatField(600)>>) }

\* Lines with a field missing, a field too many, or text where a number belongs.
BadLines ==
    { Line("U", <<IntField(9), FloatField(1), FloatField(2)>>),
      Line("U", <<IntField(9), TextField, FloatField(2), FloatField(3), FloatField(0), FloatField(0)>>),
      Line("U", <<TextField>> \o Floats5),
      Line("U", <<>>),
      Line("U", <<IntField(8)>> \o Floats5 \o <<FloatField(6)>>),
      Line("B", <<IntField(0), IntField(0), IntField(5), IntField(10), IntField(5)>>),
      Line("B", <<IntField(0), IntField(0), IntField(5), FloatField(10), IntField(5), IntField(WOOD)>>),
      Line("B", <<IntField(0), IntField(0), IntField(5), IntField(10), IntField(5), TextField>>),
      Line("P", <<IntField(2), FloatField(1)>>),
      Line("P", <<TextField>> \o Floats5),
      Line("E", <<FloatField(1)>>),
      Line("E", <<FloatField(1), TextField>>) }

\* What one recv can deliver: one line, or a bad line with a good one behind it.
InboundBatches ==
    {<<l>> : l \in GoodLines \cup BadLines}
        \cup {<<b, g>> : b \in BadLines, g \in {Block(5, 0, 5, 10, 5, WOOD)}}

\* The chunk the game has loaded when lines arrive.
InboundChunks == {<<0, 0>>}

\* A game that has generated its chunk and not yet connected.
InboundInit ==
    /\ \E s \in Seeds, r0 \in UnseededStates, k \in InboundChunks :
           LET w == World_generate_chunk(World_init(s, r0), k[1], k[2])
           IN /\ seed = w.seed
              /\ chunks = w.chunks
              /\ loaded_chunks = w.loaded_chunks
              /\ rng = w.rng
    /\ pc = "idle"
    /\ call = NoCall
    /\ last = Op("init", <<>>)
    /\ prev = Op("none", <<>>)
    /\ ops = 0
    /\ chunk_buffers = NoBuffers
    /\ other = NoOther
    /\ heights = {}
    /\ client = NetworkClient_init
    /\ wire = NoWire
    /\ receiver = NoReceiver
    /\ now \in StartTimes

InboundNext ==
    \/ \E ok \in BOOLEAN : Connect(ok)
    \/ \E fails \in BOOLEAN : SendVersion(fails)
    \/ PeerCloses
    \/ ReceiveLoop
    \/ \E batch \in InboundBatches : Receive(batch)
    \/ ReceiveEnds
    \/ HandleMessage

SpecInbound == InboundInit /\ [][InboundNext]_vars

(* The whole game: the main thread's ticks and input, the receive thread. *)

\* Where the player stands, what _cast_ray can return (<<>> for None), and
\* what one recv can deliver.
NetPositions == {<<5, 5>>}

RayHits == {<<>>, <<5, 10, 5>>}

NetBatches ==
    { <<Block(0, 0, 5, 10, 5, WOOD)>>,
      <<Block(0, 0, 5, 10, 5, EMPTY), Block(0, 0, 5, 10, 5, WOOD)>> }

\* InputHandler._handle_block_destroy: the ray's hit, if any, becomes EMPTY
BlockDestroy(hit) ==
    LET r == World_set_block(TheWorld, hit[1], hit[2], hit[3], EMPTY)
    IN /\ Begin
       /\ IF hit = <<>>
          THEN /\ UNCHANGED <<seed, chunks, loaded_chunks, rng>>
               /\ Returns(Op("block_destroy", <<>>))
          ELSE /\ ~Block_is_empty(World_get_block(TheWorld, hit[1], hit[2], hit[3]).type)
               /\ SetWorld(r.world)
               /\ Returns([Op("block_destroy", hit) EXCEPT !.exc = r.exc, !.type = EMPTY])
       /\ UNCHANGED <<pc, call>>
       /\ UNCHANGED beside

\* InputHandler._handle_block_place: the cell before the ray's hit, if any,
\* becomes GRASS
BlockPlace(hit) ==
    LET r == World_set_block(TheWorld, hit[1], hit[2], hit[3], GRASS)
    IN /\ Begin
       /\ IF hit = <<>>
          THEN /\ UNCHANGED <<seed, chunks, loaded_chunks, rng>>
               /\ Returns(Op("block_place", <<>>))
          ELSE /\ SetWorld(r.world)
               /\ Returns([Op("block_place", hit) EXCEPT !.exc = r.exc, !.type = GRASS])
       /\ UNCHANGED <<pc, call>>
       /\ UNCHANGED beside

\* What the receive thread does next, whenever it can do anything.
ReceiveThread ==
    \/ ReceiveLoop
    \/ \E batch \in NetBatches : Receive(batch)
    \/ ReceiveEnds
    \/ HandleMessage

NetNext ==
    \/ \E pos \in NetPositions : UpdateLoad(pos)
    \/ UpdateUnload
    \/ \E hit \in RayHits : BlockDestroy(hit)
    \/ \E hit \in RayHits : BlockPlace(hit)
    \/ \E ok \in BOOLEAN : Connect(ok)
    \/ \E fails \in BOOLEAN : SendVersion(fails)
    \/ \E fails \in BOOLEAN : SendPosition(fails)
    \/ PeerCloses
    \/ ReceiveThread

\* The receive thread is a running thread: it is scheduled again and again,
\* and a recv on a closed or broken connection returns.
SpecNet == OnlineInit /\ [][NetNext]_vars /\ WF_vars(ReceiveThread)

\* The positions in wire.sent of the P messages sent on the connection.
PositionsSent == {i \in 1..Len(wire.sent) : wire.sent[i].command = "P"}

\* C25: outbound P messages are rate-limited: two P messages sent on a
\* connection are at least 100 ms apart, and a send_position call made less
\* than 100 ms after the last sent P sends nothing and leaves
\* last_position_send unchanged.
C25_PositionRateLimited ==
    /\ [](\A i, j \in PositionsSent : i < j => wire.times[j] - wire.times[i] >= 100)
    /\ [][(/\ Completes("send_position")
           /\ wire.last_p # <<>>
           /\ now - wire.last_p[1] < 100)
            => /\ wire'.sent = wire.sent
               /\ client'.last_position_send = client.last_position_send]_vars

\* Two P messages went out 100 ms apart and a third call, 50 ms after the
\* second, sent nothing.
C25_Witness ==
    /\ pc = "idle"
    /\ client.connected
    /\ last.op = "send_position"
    /\ prev.op = "send_position"
    /\ Cardinality(PositionsSent) = 2
    /\ \E i, j \in PositionsSent : wire.times[j] - wire.times[i] = 100
    /\ wire.last_p # <<>>
    /\ last.args[1] - wire.last_p[1] = 50

\* C26: on every successful connect the V message is the first message sent on
\* that connection: no P, B or C message is sent on it before V.
C26_VersionFirst ==
    wire.sent # <<>> => wire.sent[1].command = "V"

\* A second connection on which V and then a P message were sent.
C26_Witness ==
    /\ wire.connects = 2
    /\ Len(wire.sent) = 2
    /\ wire.sent[1].command = "V"
    /\ wire.sent[2].command = "P"

IsInt(field) == field.kind = "int"

IsNumber(field) == field.kind \in {"int", "float"}

\* The line has the fields the protocol gives its command.
WellFormed(line) ==
    LET args == line.args
    IN CASE line.command \in {"U", "P"} ->
                /\ Len(args) = 6
                /\ IsInt(args[1])
                /\ \A i \in 2..6 : IsNumber(args[i])
         [] line.command = "B" -> Len(args) = 6 /\ \A i \in 1..6 : IsInt(args[i])
         [] line.command = "E" -> Len(args) = 2 /\ \A i \in 1..2 : IsNumber(args[i])
         [] OTHER -> TRUE

Malformed(line) == line.command \in {"U", "B", "P", "E"} /\ ~WellFormed(line)

\* This step is _handle_message handling one line (receiver'.line).
Handles == receiver'.handled = receiver.handled + 1

\* C23: a malformed inbound line (wrong number of fields, or a non-numeric
\* field, for U, B, P or E) does not terminate the connection: _handle_message
\* never raises, connected stays as it was, and the receive loop goes on with
\* the lines behind it.
C23_MalformedKeepsConnection ==
    /\ [](~receiver.raised)
    /\ [][(Handles /\ Malformed(receiver'.line))
            => /\ client'.connected = client.connected
               /\ receiver'.pc \in {"lines", "loop"}
               /\ receiver'.buffer = Tail(receiver.buffer)]_vars

\* A well-formed B line was applied after a malformed line, still connected.
C23_Witness ==
    /\ client.connected
    /\ receiver.handled = 2
    /\ receiver.errors = 1
    /\ ~receiver.error
    /\ receiver.applied
    /\ receiver.line = Block(5, 0, 5, 10, 5, WOOD)
    /\ World_get_block(TheWorld, 5, 10, 5).type = WOOD

\* C24: a malformed inbound line is discarded as a whole: handling it leaves
\* the World's blocks and the client's player_id as they were.
C24_MalformedDiscarded ==
    [][(Handles /\ Malformed(receiver'.line))
        => /\ chunks' = chunks
           /\ client'.player_id = client.player_id]_vars

\* C28: a well-formed B line p,q,x,y,z,w is applied as World.set_block(x,y,z,w):
\* afterwards get_block(x,y,z) is w if the chunk owning (x,z) is loaded and the
\* world is unchanged if it is not; no chunk but the owner is written, whatever
\* p and q say.
C28_BlockLineApplied ==
    [][(Handles /\ receiver'.line.command = "B" /\ WellFormed(receiver'.line))
        => LET a == receiver'.line.args
               owner == <<chunked(a[3].val), chunked(a[5].val)>>
               after == [seed |-> seed', chunks |-> chunks',
                         loaded_chunks |-> loaded_chunks', rng |-> rng']
           IN /\ receiver'.applied
              /\ IF owner \in DOMAIN chunks
                 THEN /\ World_get_block(after, a[3].val, a[4].val, a[5].val).type = a[6].val
                      /\ DOMAIN chunks' = DOMAIN chunks
                      /\ \A k \in DOMAIN chunks \ {owner} : chunks'[k] = chunks[k]
                 ELSE chunks' = chunks
              /\ loaded_chunks' = loaded_chunks]_vars

\* A B line naming chunk (5, 0) wrote WOOD at (5, 10, 5), which chunk (0, 0) owns.
C28_Witness ==
    /\ receiver.line = Block(5, 0, 5, 10, 5, WOOD)
    /\ receiver.applied
    /\ receiver.errors = 0
    /\ <<0, 0>> \in DOMAIN chunks
    /\ <<5, 0>> \notin DOMAIN chunks
    /\ World_get_block(TheWorld, 5, 10, 5).type = WOOD

\* Where the main thread is while it is inside a call that reads or writes
\* the World.
InsideWorld == {"unload"}

\* C22: World state has a single writer: an inbound B message is never applied
\* to the World while the main thread is inside World.update, World.set_block
\* or a chunk mesh build.
C22_SingleWriter ==
    receiver.applied => receiver.during \notin InsideWorld

\* C27: while the client is connected, every local block change made through
\* the input handler (block destroy, block place) results in an outbound B
\* message carrying the same x, y, z and block type.
C27_LocalChangeSent ==
    [][(/\ client.connected
        /\ Completes("block_place") \/ Completes("block_destroy")
        /\ last'.args # <<>>
        /\ OwnerOf(last'.args) \in DOMAIN chunks)
        => wire'.sent = Append(wire.sent, [command |-> "B",
                                           args |-> last'.args \o <<last'.type>>])]_vars

\* C29: a network failure is fatal only to the connection: after a send error,
\* a receive error or the peer closing the stream, connected eventually
\* becomes false, no exception reaches the caller, every later send on the
\* connection is a no-op, no further remote block update is applied, and the
\* World's own operations still complete.
C29_FailureEndsConnectionOnly ==
    /\ [](last.exc = "none" /\ ~receiver.raised)
    /\ [][(wire.failed /\ wire'.failed) => wire'.sent = wire.sent]_vars
    /\ [][(wire.failed /\ wire'.failed /\ Handles) => chunks' = chunks]_vars
    /\ [][(wire.failed /\ Completes("block_place") /\ last'.args # <<>>)
            => World_get_block([seed |-> seed', chunks |-> chunks',
                                loaded_chunks |-> loaded_chunks', rng |-> rng'],
                               last'.args[1], last'.args[2], last'.args[3]).type
                 = IF OwnerOf(last'.args) \in DOMAIN chunks THEN GRASS ELSE EMPTY]_vars
    /\ (wire.peer = "closed" \/ wire.failed) ~> ~client.connected

(* ------------------------------ construction ---------------------------- *)

\* What the caller passes as seed, and where the generator stands before.
SeedArguments == {<<>>, <<0>>, <<42>>, <<12345>>}

GeneratorStates == {0, 3, 58}

SeedInit ==
    \E given \in SeedArguments, r0 \in GeneratorStates :
        LET w == World_new(given, r0)
        IN /\ seed = w.seed
           /\ chunks = w.chunks
           /\ loaded_chunks = w.loaded_chunks
           /\ rng = w.rng
           /\ pc = "idle"
           /\ call = NoCall
           /\ last = Op("init", given)
           /\ prev = Op("init", given)
           /\ ops = 0
           /\ chunk_buffers = NoBuffers
           /\ other = NoOther
           /\ heights = {}
           /\ Offline

SeedNext ==
    \/ \E k \in ForcedChunks : ForceGenerate(k[1], k[2])
    \/ \E b \in BlockCoords : GetBlock(b[1], b[2], b[3])

SpecSeed == SeedInit /\ [][SeedNext]_vars

\* The seed argument the World of this behaviour was constructed with; prev
\* keeps it until two operations have completed.
Constructed == prev.op = "init"

\* C40: a World constructed with an explicit integer seed s uses exactly that
\* seed, s = 0 included; a random seed is drawn only when none is given.
C40_SeedIsKept ==
    (Constructed /\ prev.args # <<>>) => seed = prev.args[1]

(* -------------------------------- terrain ------------------------------- *)

\* Seeds whose draws grow no tree, one tree (of height 4 or 7, early, in the
\* middle or late in the loop, with or without a plant below it) or two trees
\* on the high patch.
TerrainSeeds == {5, 25, 30, 31, 55, 63, 67}

\* Surface coordinates read back through World.get_block.
TerrainReads == {<<325, 14, 325>>, <<261, 1, 581>>}

TerrainInit ==
    \E s \in TerrainSeeds, r0 \in UnseededStates :
        LET w == World_init(s, r0)
        IN /\ seed = w.seed
           /\ chunks = w.chunks
           /\ loaded_chunks = w.loaded_chunks
           /\ rng = w.rng
           /\ pc = "idle"
           /\ call = NoCall
           /\ last = Op("init", <<s>>)
           /\ prev = Op("none", <<>>)
           /\ ops = 0
           /\ chunk_buffers = NoBuffers
           /\ other = NoOther
           /\ heights = {}
           /\ Offline

TerrainNext ==
    \/ \E k \in DenseChunks : ForceGenerate(k[1], k[2])
    \/ \E b \in TerrainReads : GetBlock(b[1], b[2], b[3])

SpecTerrain == TerrainInit /\ [][TerrainNext]_vars

\* The columns (x, z) of chunk k that generation filled.
ColumnsIn(k) ==
    {<<k[1] * CHUNK_SIZE + ColumnsOf(k[1], k[2])[i][1],
       k[2] * CHUNK_SIZE + ColumnsOf(k[1], k[2])[i][2]>> :
         i \in 1..Len(ColumnsOf(k[1], k[2]))}

\* The column (x, z) of the World has a terrain of height h and nothing else
\* below h + 1: stone at 0 and below h - 3, dirt up to h - 1, grass at h.
Layered(x, z, h) ==
    /\ World_get_block(TheWorld, x, h, z).type = GRASS
    /\ \A y \in Max(1, h - 3)..(h - 1) : World_get_block(TheWorld, x, y, z).type = DIRT
    /\ World_get_block(TheWorld, x, 0, z).type = STONE
    /\ \A y \in 1..(h - 4) : World_get_block(TheWorld, x, y, z).type = STONE

\* C31: immediately after a chunk is generated, every column of its footprint
\* with terrain height h has GRASS at h, DIRT at max(1,h-3) <= y < h, STONE at
\* 0 and at 1 <= y < h-3; plants and trees of this or of neighbouring columns
\* overwrite none of these.
C31_ColumnLayers ==
    (pc = "idle" /\ last.op = "generate_chunk")
        => \A c \in ColumnsIn(last.args) :
               LET h == World_get_terrain_height(TheWorld, c[1], c[2])
               IN h \in 1..64 /\ Layered(c[1], c[2], h)

\* The high patch was generated with a tree whose leaves hang over the
\* column next to it.
C31_Witness ==
    /\ pc = "idle"
    /\ last.op = "generate_chunk"
    /\ last.args = <<10, 10>>
    /\ \E c, d \in ColumnsIn(<<10, 10>>) :
          /\ c # d
          /\ \E y \in 14..30 : World_get_block(TheWorld, c[1], y, c[2]).type = WOOD
          /\ \E y \in 14..30 : World_get_block(TheWorld, d[1], y, d[2]).type = LEAVES
          /\ World_get_block(TheWorld, d[1], World_get_terrain_height(TheWorld, d[1], d[2]),
                             d[2]).type = GRASS

\* C32: a tree generated at base (x,y,z) leaves a trunk of WOOD at (x, y+i, z)
\* for every i in 0..tree_height-1, with tree_height between 4 and 7; the leaf
\* cluster replaces no trunk block.
C32_TrunkStands ==
    [][Completes("generate_chunk")
        => \A t \in GeneratedColumns(TheWorld, last'.args[1], last'.args[2]).trees :
               /\ t[4] \in 4..7
               /\ \A i \in 0..(t[4] - 1) :
                      Chunk_get_block(chunks'[last'.args], t[1], t[2] + i, t[3]).type = WOOD]_vars

(* -------------------------------- routing ------------------------------- *)

\* Coordinates around chunk borders: near zero on both sides, and around 2^58,
\* where the quotient by 32 is no longer a double.
RoutedCoordinates ==
    {NearInt(n) : n \in {-33, -32, -1, 0, 31, 32}}
        \cup {FarInt(n) : n \in {-16, -1, 0, 33}}

\* World.get_chunk_for_position(x, z), as far as it picks the chunk:
\* self.get_chunk(chunked(x), chunked(z))
Route(x, z) ==
    /\ Begin
    /\ Returns([Op("get_chunk_for_position", <<x, z>>) EXCEPT
                   !.key = <<chunked_wide(x), chunked_wide(z)>>])
    /\ UNCHANGED <<seed, chunks, loaded_chunks, rng, pc, call>>
    /\ UNCHANGED beside

RoutingNext == \E x, z \in RoutedCoordinates : Route(x, z)

SpecRouting == Init /\ [][RoutingNext]_vars

\* The chunk coordinates next to the coordinate c on one axis.
Around(c) == {[c EXCEPT !.n = c.n + d] : d \in -3..3}

\* p * 32 <= x <= p * 32 + 31
Owns(p, x) ==
    /\ WideLeq([p EXCEPT !.n = p.n * 32], x)
    /\ WideLeq(x, [p EXCEPT !.n = p.n * 32 + 31])

\* C33: chunk routing agrees with the chunk bounding box: for every integer x
\* and z, chunked(x) = p exactly when p*32 <= x <= p*32+31, so the chunk that
\* get_chunk_for_position(x, z) picks contains (x, z) and is the only one
\* that does.
C33_RoutingMatchesBounds ==
    (pc = "idle" /\ last.op = "get_chunk_for_position")
        => LET x == last.args[1]
               z == last.args[2]
               p == last.key[1]
               q == last.key[2]
           IN /\ \A c \in Around(p) : (c = p) <=> Owns(c, x)
              /\ \A c \in Around(q) : (c = q) <=> Owns(c, z)
              /\ Chunk_contains_point_wide(Chunk_bounds_wide(p, q), x, z)

(* -------------------------------- framing ------------------------------- *)

MaxStream == 5

MaxRecv == 3

\* The characters of the inbound stream: two letters and the newline.
StreamChars == {"a", "b", "\n"}

\* Every stream of at most MaxStream characters.
Streams == UNION {[1..n -> StreamChars] : n \in 0..MaxStream}

\* '\n' in buffer
HasNewline(buffer) == \E i \in 1..Len(buffer) : buffer[i] = "\n"

\* buffer.split('\n', 1): the text before the first newline and the text
\* after it.
SplitFirst(buffer) ==
    LET at == CHOOSE i \in 1..Len(buffer) :
                  buffer[i] = "\n" /\ \A j \in 1..(i - 1) : buffer[j] # "\n"
    IN [line |-> SubSeq(buffer, 1, at - 1), buffer |-> SubSeq(buffer, at + 1, Len(buffer))]

\* The receive loop starting each recv with an empty buffer (buffer = data).
Buffered_Fresh(buffer, data) == data

\* buffer += data
Buffered(buffer, data) == buffer \o data

\* A client just connected, its receive thread about to call recv, and the
\* stream the server is going to send.
FramingInit ==
    /\ \E s \in Seeds, r0 \in UnseededStates :
           LET w == World_init(s, r0)
           IN /\ seed = w.seed
              /\ chunks = w.chunks
              /\ loaded_chunks = w.loaded_chunks
              /\ rng = w.rng
    /\ pc = "idle"
    /\ call = NoCall
    /\ last = Op("connect", <<1>>)
    /\ prev = Op("init", <<>>)
    /\ ops = 0
    /\ chunk_buffers = NoBuffers
    /\ other = NoOther
    /\ heights = {}
    /\ client = [NetworkClient_init EXCEPT !.connected = TRUE, !.socket = "open"]
    /\ \E stream \in Streams :
           wire = [peer |-> "open", inbound |-> stream, received |-> <<>>, recvs |-> <<>>]
    /\ receiver = [pc |-> "recv", buffer |-> <<>>, lines |-> <<>>]
    /\ now \in StartTimes

\* _receive_loop: while self.connected: data = recv(4096).decode('utf-8');
\* buffer += data, for a recv that returns the next n characters
FrameReceive(n) ==
    /\ receiver.pc = "recv"
    /\ client.connected
    /\ n <= Len(wire.inbound)
    /\ receiver' = [receiver EXCEPT
                       !.pc = "lines",
                       !.buffer = Buffered(receiver.buffer, SubSeq(wire.inbound, 1, n))]
    /\ wire' = [wire EXCEPT
                   !.inbound = SubSeq(wire.inbound, n + 1, Len(wire.inbound)),
                   !.received = wire.received \o SubSeq(wire.inbound, 1, n),
                   !.recvs = Append(wire.recvs, n)]
    /\ UNCHANGED <<offline, pc, last, prev, ops, client, now>>

\* _receive_loop: one test of `while '\n' in buffer` and, where it holds, one
\* turn: line, buffer = buffer.split('\n', 1); if line: self._handle_message(line)
FrameLine ==
    /\ receiver.pc = "lines"
    /\ IF HasNewline(receiver.buffer)
       THEN LET cut == SplitFirst(receiver.buffer)
            IN receiver' = [receiver EXCEPT
                               !.buffer = cut.buffer,
                               !.lines = IF cut.line # <<>>
                                         THEN Append(receiver.lines, cut.line)
                                         ELSE receiver.lines]
       ELSE receiver' = [receiver EXCEPT !.pc = "recv"]
    /\ UNCHANGED <<offline, pc, last, prev, ops, client, wire, now>>

\* _receive_loop: recv returns no data once the server has sent everything
\* and closed, or raises: break; self.connected = False
FrameEnds ==
    /\ receiver.pc = "recv"
    /\ receiver' = [receiver EXCEPT !.pc = "done"]
    /\ client' = [client EXCEPT !.connected = FALSE]
    /\ UNCHANGED <<offline, pc, last, prev, ops, wire, now>>

FramingNext ==
    \/ \E n \in 1..MaxRecv : FrameReceive(n)
    \/ FrameLine
    \/ FrameEnds

SpecFraming == FramingInit /\ [][FramingNext]_vars

\* The positions of the newlines of text, and the k-th of them (0 for k = 0).
Newlines(text) == {i \in 1..Len(text) : text[i] = "\n"}

NewlineAt(text, k) ==
    IF k = 0 THEN 0
    ELSE CHOOSE i \in Newlines(text) : Cardinality({j \in Newlines(text) : j <= i}) = k

\* The newline-terminated lines of text that are not empty, in order, and
\* what follows its last newline.
TerminatedLines(text) ==
    SelectSeq([k \in 1..Cardinality(Newlines(text)) |->
                  SubSeq(text, NewlineAt(text, k - 1) + 1, NewlineAt(text, k) - 1)],
              LAMBDA line : line # <<>>)

UnterminatedTail(text) ==
    SubSeq(text, NewlineAt(text, Cardinality(Newlines(text))) + 1, Len(text))

\* C34: the receive loop frames the stream by newlines however the bytes are
\* split across recv calls: the lines passed to _handle_message are the
\* non-empty newline-terminated lines received, each once and in order, and an
\* unterminated tail is held back until its newline arrives.
C34_FramedByNewlines ==
    receiver.pc \in {"recv", "done"}
        => /\ receiver.lines = TerminatedLines(wire.received)
           /\ receiver.pc = "recv" => receiver.buffer = UnterminatedTail(wire.received)

\* "ab\n\nb" arrived as "a" and then the rest: one line "ab" was handled, the
\* empty line was skipped and "b" waits for its newline.
C34_Witness ==
    /\ receiver.pc = "recv"
    /\ wire.received = <<"a", "b", "\n", "\n", "b">>
    /\ wire.recvs[1] = 1
    /\ receiver.lines = << <<"a", "b">> >>
    /\ receiver.buffer = <<"b">>

(* ------------ a render racing with the receive thread ------------------- *)

\* What recv delivers while the renderer works: a block put above the terrain
\* of chunk (0,0), and the same block taken away.
RaceBatches == { <<Block(0, 0, 5, 10, 5, WOOD)>>, <<Block(0, 0, 5, 10, 5, EMPTY)>> }

\* A connected game with its chunk generated, the receive thread in recv.
RaceInit ==
    /\ \E s \in Seeds, r0 \in UnseededStates, k \in InboundChunks :
           LET w == World_generate_chunk(World_init(s, r0), k[1], k[2])
           IN /\ seed = w.seed
              /\ chunks = w.chunks
              /\ loaded_chunks = w.loaded_chunks
              /\ rng = w.rng
    /\ pc = "idle"
    /\ call = NoCall
    /\ last = Op("init", <<>>)
    /\ prev = Op("none", <<>>)
    /\ ops = 0
    /\ chunk_buffers = NoBuffers
    /\ other = NoOther
    /\ heights = {}
    /\ client = [NetworkClient_init EXCEPT !.connected = TRUE, !.socket = "open"]
    /\ wire = [NoWire EXCEPT !.peer = "open", !.connects = 1]
    /\ receiver = [NoReceiver EXCEPT !.pc = "recv"]
    /\ now \in StartTimes

\* The buffer _render_chunk draws: chunk_id in self.chunk_buffers and not None
Drawn(id) ==
    IF id \in DOMAIN chunk_buffers /\ ~chunk_buffers[id].none THEN {id} ELSE {}

\* _render_chunk(chunk) on the main thread, up to `if chunk.dirty:`; a clean
\* chunk is drawn from its buffer at once.
RenderChunkBegins(id) ==
    /\ Begin
    /\ id \in DOMAIN chunks
    /\ chunks[id].generated
    /\ IF chunks[id].dirty
       THEN /\ pc' = "build"
            /\ call' = [NoCall EXCEPT !.center = id]
            /\ UNCHANGED <<last, prev>>
       ELSE /\ Returns([Op("render_chunk", id) EXCEPT !.drawn = Drawn(id)])
            /\ UNCHANGED <<pc, call>>
    /\ UNCHANGED <<seed, chunks, loaded_chunks, rng, chunk_buffers, other, heights, net>>

\* _render_chunk: self._build_chunk_mesh(chunk), of the blocks the chunk has now
RenderChunkBuilds ==
    /\ pc = "build"
    /\ chunk_buffers' = Renderer_build_chunk_mesh(chunk_buffers, chunks[call.center])
    /\ pc' = "clear"
    /\ UNCHANGED <<seed, chunks, loaded_chunks, rng, call, last, prev, ops, other, heights, net>>

\* _render_chunk: chunk.dirty = False, and the buffer is drawn
RenderChunkClears ==
    /\ pc = "clear"
    /\ chunks' = [chunks EXCEPT ![call.center].dirty = FALSE]
    /\ pc' = "idle"
    /\ call' = NoCall
    /\ Returns([Op("render_chunk", call.center) EXCEPT
                   !.rebuilt = {call.center}, !.drawn = Drawn(call.center)])
    /\ UNCHANGED <<seed, loaded_chunks, rng, ops, chunk_buffers, other, heights, net>>

RaceNext ==
    \/ \E id \in InboundChunks : RenderChunkBegins(id)
    \/ RenderChunkBuilds
    \/ RenderChunkClears
    \/ ReceiveLoop
    \/ \E batch \in RaceBatches : Receive(batch)
    \/ HandleMessage

SpecRace == RaceInit /\ [][RaceNext]_vars

\* C35: a B message applied by the receive thread while the main thread
\* renders the same chunk is not lost: whenever no render is in progress, a
\* chunk whose dirty flag is false has a cached vertex buffer that is the mesh
\* of the blocks it has now.
C35_RemoteChangeNotLost ==
    pc = "idle"
        => \A id \in DOMAIN chunks :
               ~chunks[id].dirty
                 => (id \in DOMAIN chunk_buffers /\ chunk_buffers[id] = MeshOf(chunks[id]))

(* ------------- connections, their sockets and their threads ------------- *)

\* socket.close() of the socket object n, of the socket objects created so far
Closed(sockets, n) == [sockets EXCEPT ![n] = "closed"]

\* NetworkClient.disconnect, the client's socket attribute naming one of the
\* socket objects created so far (0 for None): [client, sockets]
NetworkClient_disconnect_socket(c, sockets) ==
    IF c.connected
    THEN [client |-> [c EXCEPT !.connected = FALSE],
          sockets |-> IF c.socket # 0 THEN Closed(sockets, c.socket) ELSE sockets]
    ELSE [client |-> c, sockets |-> sockets]

\* NetworkClient.send_command, as far as the connection goes: a send that
\* raises ends in disconnect()
NetworkClient_send_command_socket(c, sockets, fails) ==
    IF c.connected /\ fails
    THEN NetworkClient_disconnect_socket(c, sockets)
    ELSE [client |-> c, sockets |-> sockets]

\* A client that never connected; wire.sockets holds, for every socket object
\* connect has created, whether it is open or closed, receiver the receive
\* threads started, one for every connect that succeeded: where each is, the
\* socket it was started for (thread) and the socket its recv is on (on).
SessionInit ==
    /\ \E s \in Seeds, r0 \in UnseededStates :
           LET w == World_init(s, r0)
           IN /\ seed = w.seed
              /\ chunks = w.chunks
              /\ loaded_chunks = w.loaded_chunks
              /\ rng = w.rng
    /\ pc = "idle"
    /\ call = NoCall
    /\ last = Op("init", <<>>)
    /\ prev = Op("none", <<>>)
    /\ ops = 0
    /\ chunk_buffers = NoBuffers
    /\ other = NoOther
    /\ heights = {}
    /\ client = [NetworkClient_init EXCEPT !.socket = 0]
    /\ wire = [sockets |-> <<>>]
    /\ receiver = <<>>
    /\ now \in StartTimes

\* NetworkClient.connect, called by a game that is not connected: a new
\* socket object; socket.connect raises (~ok) and the except branch clears
\* connected, or the receive thread is started and V is sent.
SessionConnect(ok, fails) ==
    LET n == Len(wire.sockets) + 1
        created == Append(wire.sockets, "open")
        mine == [client EXCEPT !.socket = n]
        r == NetworkClient_send_command_socket([mine EXCEPT !.connected = TRUE],
                                               created, fails)
    IN /\ Calling
       /\ ~client.connected
       /\ n <= MaxConnects
       /\ IF ok
          THEN /\ client' = r.client
               /\ wire' = [wire EXCEPT !.sockets = r.sockets]
               /\ receiver' = Append(receiver, [pc |-> "loop", on |-> 0, thread |-> n])
               /\ Returns([Op("connect", <<1>>) EXCEPT !.key = <<n>>])
          ELSE /\ client' = [mine EXCEPT !.connected = FALSE]
               /\ wire' = [wire EXCEPT !.sockets = created]
               /\ receiver' = receiver
               /\ Returns([Op("connect", <<0>>) EXCEPT !.key = <<n>>])
       /\ UNCHANGED <<offline, pc, now>>

\* NetworkClient.disconnect
SessionDisconnect ==
    LET r == NetworkClient_disconnect_socket(client, wire.sockets)
    IN /\ Calling
       /\ client' = r.client
       /\ wire' = [wire EXCEPT !.sockets = r.sockets]
       /\ Returns(Op("disconnect", <<>>))
       /\ UNCHANGED <<offline, pc, receiver, now>>

\* NetworkClient.send_command whose socket.send raises
SessionSendFails ==
    LET r == NetworkClient_send_command_socket(client, wire.sockets, TRUE)
    IN /\ Calling
       /\ client' = r.client
       /\ wire' = [wire EXCEPT !.sockets = r.sockets]
       /\ Returns(Op("send_command", <<>>))
       /\ UNCHANGED <<offline, pc, receiver, now>>

\* _receive_loop of thread k: `while self.connected`, then self.socket is read
\* for the recv call; after the loop, self.connected = False
ThreadLoops(k) ==
    /\ receiver[k].pc = "loop"
    /\ IF client.connected
       THEN /\ receiver' = [receiver EXCEPT ![k].pc = "recv", ![k].on = client.socket]
            /\ UNCHANGED client
       ELSE /\ receiver' = [receiver EXCEPT ![k].pc = "done"]
            /\ client' = [client EXCEPT !.connected = FALSE]
    /\ UNCHANGED <<offline, pc, last, prev, ops, wire, now>>

\* _receive_loop of thread k: recv returns data from the socket it was called on
ThreadReceives(k) ==
    /\ receiver[k].pc = "recv"
    /\ wire.sockets[receiver[k].on] = "open"
    /\ receiver' = [receiver EXCEPT ![k].pc = "loop"]
    /\ UNCHANGED <<offline, pc, last, prev, ops, client, wire, now>>

\* _receive_loop of thread k: recv returns nothing (end of stream) or raises
\* (the socket was closed, the connection broke): break; self.connected = False
ThreadEnds(k) ==
    /\ receiver[k].pc = "recv"
    /\ receiver' = [receiver EXCEPT ![k].pc = "done"]
    /\ client' = [client EXCEPT !.connected = FALSE]
    /\ UNCHANGED <<offline, pc, last, prev, ops, wire, now>>

SessionNext ==
    \/ \E ok \in BOOLEAN, fails \in BOOLEAN : SessionConnect(ok, fails)
    \/ SessionDisconnect
    \/ SessionSendFails
    \/ \E k \in DOMAIN receiver : ThreadLoops(k)
    \/ \E k \in DOMAIN receiver : ThreadReceives(k)
    \/ \E k \in DOMAIN receiver : ThreadEnds(k)

SpecSession == SessionInit /\ [][SessionNext]_vars

\* C36: a connection is ended only by its own events: connected goes from
\* true to false only in a disconnect() call, in a send that failed, or when
\* the receive thread of the current connection ends on its own socket; and
\* a receive thread only ever reads from the socket of the connection it was
\* started for, so the thread of an earlier connection touches neither the
\* flag nor the socket of a later one.
C36_ConnectionIsItsOwn ==
    /\ [](\A k \in DOMAIN receiver :
              receiver[k].pc = "recv" => receiver[k].on = receiver[k].thread)
    /\ [][(client.connected /\ ~client'.connected)
            => \/ ops' = ops + 1 /\ last'.op \in {"disconnect", "send_command"}
               \/ \E k \in DOMAIN receiver :
                      /\ receiver'[k] # receiver[k]
                      /\ receiver[k].thread = client.socket
                      /\ receiver[k].on = client.socket]_vars

\* C37: whenever connected is false after a connect was made or attempted,
\* every socket the client has created has been closed.
C37_EndedConnectionClosed ==
    ~client.connected => \A n \in DOMAIN wire.sockets : wire.sockets[n] = "closed"

(* ------------------------ written blocks stay readable ------------------ *)

\* What World.get_block returns at coordinate b in the world w.
ReadAt(w, b) == World_get_block(w, b[1], b[2], b[3]).type

MaxRequests == 4

\* The cache_size the compatibility World is constructed with, and the chunk
\* coordinates the server asks for.
CacheSizes == {0, 1, 2}

CachedChunks == {<<0, 0>>, <<1, 0>>, <<0, 1>>}

\* World(seed=s) and the compatibility World(seed=s, cache_size=n) of one
\* process; other.requests is the get_chunk calls made so far, each with the
\* mapping it returned.
CacheInit ==
    /\ \E s \in Seeds, r0 \in UnseededStates, n \in CacheSizes :
           LET w == World_init(s, r0)
               o == World_init(s, w.rng)
           IN /\ seed = w.seed
              /\ chunks = w.chunks
              /\ loaded_chunks = w.loaded_chunks
              /\ other = [made |-> TRUE, seed |-> o.seed, chunks |-> o.chunks,
                          loaded_chunks |-> o.loaded_chunks,
                          cache |-> <<>>, cache_size |-> n, requests |-> <<>>]
              /\ rng = o.rng
    /\ pc = "idle"
    /\ call = NoCall
    /\ last = Op("init", <<>>)
    /\ prev = Op("none", <<>>)
    /\ ops = 0
    /\ chunk_buffers = NoBuffers
    /\ heights = {}
    /\ Offline

\* get_chunk(p, q) of the compatibility World
OtherGetChunk(p, q) ==
    LET r == Compat_get_chunk([world |-> OtherWorld, cache |-> other.cache,
                               cache_size |-> other.cache_size], p, q)
    IN /\ pc = "idle"
       /\ Len(other.requests) < MaxRequests
       /\ ops' = ops + 1
       /\ other' = [other EXCEPT
                       !.chunks = r.compat.world.chunks,
                       !.loaded_chunks = r.compat.world.loaded_chunks,
                       !.cache = r.compat.cache,
                       !.requests = Append(other.requests,
                                           [key |-> <<p, q>>, chunk |-> r.chunk, hit |-> r.hit])]
       /\ rng' = r.compat.world.rng
       /\ Returns(Op("other_get_chunk", <<p, q>>))
       /\ UNCHANGED <<seed, chunks, loaded_chunks, pc, call, chunk_buffers, heights, net>>

CacheNext == \E c \in CachedChunks : OtherGetChunk(c[1], c[2])

SpecCache == CacheInit /\ [][CacheNext]_vars

\* The requests that are the last one for their coordinate, and the distinct
\* coordinates requested in the order of those, least recent first.
LastRequests(requests) ==
    {i \in DOMAIN requests :
        \A j \in DOMAIN requests : j > i => requests[j].key # requests[i].key}

RecentKeys(requests) ==
    [n \in 1..Cardinality(LastRequests(requests)) |->
        requests[CHOOSE i \in LastRequests(requests) :
                     Cardinality({j \in LastRequests(requests) : j <= i}) = n].key]

\* The last n entries of a sequence.
LastOf(seq, n) == SubSeq(seq, Len(seq) - Min(n, Len(seq)) + 1, Len(seq))

\* C39: the compatibility World's cache is a bounded LRU: after every
\* get_chunk call it holds at most cache_size entries, which are the
\* cache_size most recently requested distinct coordinates, least recent
\* first; and every get_chunk call for a coordinate returns the same mapping,
\* on a miss, on a hit and after the entry was evicted and created again.
C39_CacheIsBoundedLru ==
    /\ Len(other.cache) <= other.cache_size
    /\ [i \in DOMAIN other.cache |-> other.cache[i].key]
         = LastOf(RecentKeys(other.requests), other.cache_size)
    /\ \A i \in DOMAIN other.cache :
           other.requests # <<>> /\ other.cache[i].key = last.args
             => other.cache[i].chunk = other.requests[Len(other.requests)].chunk
    /\ \A i, j \in DOMAIN other.requests :
           other.requests[i].key = other.requests[j].key
             => other.requests[i].chunk = other.requests[j].chunk

\* With room for one entry: chunk (0,0) was created, hit, evicted by a
\* request for chunk (1,0) and created again.
C39_Witness ==
    /\ other.cache_size = 1
    /\ Len(other.requests) = 4
    /\ \A i \in {1, 2, 4} : other.requests[i].key = <<0, 0>>
    /\ other.requests[3].key = <<1, 0>>
    /\ other.requests[2].hit
    /\ ~other.requests[4].hit
    /\ other.requests[4].chunk # <<>>

====
